---- MODULE Spec2Model ----
(***************************************************************************)
(* Board-resolution engines of the two tile games of the repository, and   *)
(* the turn logic of its number game:                                      *)
(*   fragments (src/arcade/fragments/fragments.js): column gravity,        *)
(*     center-out column compaction, line push, click/timeout handlers;    *)
(*   edgeflow  (src/arcade/edgeflow/edgeflow.js): four-direction gravity,   *)
(*     refill, shuffle, the asynchronous turn resolution and its token;    *)
(*   NumSprint v2 (src/unnamed/part_000, second script): hits, reroll,     *)
(*     level-up, reset and their timeouts.                                 *)
(* Grids are indexed grid[y][x] with 0-based x and y as in the source.     *)
(* A missing tile (null) is the record Null / ENull.                       *)
(***************************************************************************)
EXTENDS Integers, Sequences, FiniteSets, TLC

VARIABLES
  \* ---- fragments App state ----
  f_grid,        \* useState grid
  f_nextLine,    \* useState nextLine: sequence of [t, bomb]
  f_idn,         \* the n of the current idGen closure (next id to hand out)
  f_removed,     \* useState removed
  f_score,       \* useState score
  f_locked,      \* useState locked
  f_gameOver,    \* useState gameOver
  f_gameStarted, \* useState gameStarted
  f_acc,         \* accRef.current, in ticks
  f_popQ,        \* pending POP_MS timeouts, oldest first: [after, removing, stale]
  f_pads,        \* pending LOCK_PAD_MS timeouts, oldest first: stale flags
  f_resets,      \* how many times RESET was pressed (bounded by FMaxResets)
  f_ev,          \* the handler that ran last: [op, a]
  \* ---- edgeflow App state ----
  e_grid,        \* state.grid
  e_gravity,     \* state.gravity
  e_score,       \* state.score
  e_timeLeft,    \* state.timeLeftMs / timeLeftRef, in clock units
  e_gameStarted, \* state.gameStarted
  e_gameOver,    \* state.gameOver
  e_locked,      \* state.locked
  e_idn,         \* the n of the current idGen closure
  e_rid,         \* resolutionIdRef.current
  e_removal,     \* removalTimerRef: << >> or <<[next, gravity]>> of the armed timer
  e_tasks,       \* suspended resolveAfterRemoval calls: [rid, pc, nextGrid, gravity, shifted]
  e_unlocks,     \* pending LOCK_PAD timeouts: the rid each captured
  e_ev,          \* the handler that ran last: [op, rid, a]
  \* ---- a pure function applied to an input board ----
  p_game,        \* "F" (fragments) or "E" (edgeflow): whose function is applied
  p_grid,        \* the input board
  p_fn,          \* "none" before the call, then the function's name
  p_out,         \* what the function returned
  \* ---- NumSprint v2 App state ----
  n_cells,       \* useState cells: sequence of [lv, i, value, hit, state]
  n_level,       \* useState level
  n_target,      \* useState target
  n_locked,      \* useState locked
  n_score,       \* useState score
  n_gameOver,    \* useState gameOver
  n_timeLeft,    \* useState timeLeftMs, in clock units
  n_rerolling,   \* useState rerolling
  n_timers,      \* pending reroll and level-up timeouts, in scheduling order:
                 \* [kind, level], level being the one the closure captured
  n_marks,       \* pending FEEDBACK_MS timeouts of markCellTemp: the cell ids
  n_resets,      \* how many times Reset was pressed (bounded by NMaxResets)
  n_ev           \* the handler that ran last

fvars == <<f_grid, f_nextLine, f_idn, f_removed, f_score, f_locked, f_gameOver,
           f_gameStarted, f_acc, f_popQ, f_pads, f_resets, f_ev>>

evars == <<e_grid, e_gravity, e_score, e_timeLeft, e_gameStarted, e_gameOver, e_locked,
           e_idn, e_rid, e_removal, e_tasks, e_unlocks, e_ev>>

pvars == <<p_game, p_grid, p_fn, p_out>>

nvars == <<n_cells, n_level, n_target, n_locked, n_score, n_gameOver, n_timeLeft,
           n_rerolling, n_timers, n_marks, n_resets, n_ev>>

vars == <<fvars, evars, pvars, nvars>>

(***************************************************************************)
(* Bounds of the model.  The fragments board is FCOLS x FROWS (12 x 15 in  *)
(* the source), with FTYPES kinds (4 in the source).                       *)
(***************************************************************************)
FCOLS == 4
FROWS == 3
FTYPES == 2
FSTART_LINES == 1
FLEVEL_BASE == 3
FMaxId == 12
FMaxScore == 25
FMaxPending == 1
FInterval == 2
FRowPatterns == 2
FBombCols == 1
FMaxResets == 1

F_MIN_GROUP == 3

FXs == 0..(FCOLS - 1)
FYs == 0..(FROWS - 1)

Null == [id |-> 0, t |-> -1, bomb |-> FALSE]

\* newTile(idGen, t, bomb): the id is the counter value the caller passes
F_newTile(id, t, bomb) == [id |-> id, t |-> t, bomb |-> bomb]

F_emptyGrid == [y \in FYs |-> [x \in FXs |-> Null]]

F_inBounds(x, y) == x >= 0 /\ x < FCOLS /\ y >= 0 /\ y < FROWS

\* `${x},${y}` keys are modelled as pairs
F_key(x, y) == <<x, y>>

(***************************************************************************)
(* groupAt (fragments): breadth-first search over cells of the seed's kind *)
(***************************************************************************)
F_nb(x, y) == << <<x + 1, y>>, <<x - 1, y>>, <<x, y + 1>>, <<x, y - 1>> >>

RECURSIVE F_visit(_, _, _, _, _)
\* the loop over the four neighbours of one dequeued cell: returns [q, seen]
F_visit(grid, t, nbs, q, seen) ==
  IF nbs = << >> THEN [q |-> q, seen |-> seen]
  ELSE LET nx == Head(nbs)[1]
           ny == Head(nbs)[2]
       IN IF ~F_inBounds(nx, ny) THEN F_visit(grid, t, Tail(nbs), q, seen)
          ELSE IF F_key(nx, ny) \in seen THEN F_visit(grid, t, Tail(nbs), q, seen)
          ELSE IF grid[ny][nx] # Null /\ grid[ny][nx].t = t
               THEN F_visit(grid, t, Tail(nbs), Append(q, <<nx, ny>>),
                            seen \cup {F_key(nx, ny)})
               ELSE F_visit(grid, t, Tail(nbs), q, seen)

RECURSIVE F_bfs(_, _, _, _, _)
F_bfs(grid, t, q, seen, out) ==
  IF q = << >> THEN out
  ELSE LET x == Head(q)[1]
           y == Head(q)[2]
           cell == grid[y][x]
       IN IF cell = Null \/ cell.t # t THEN F_bfs(grid, t, Tail(q), seen, out)
          ELSE LET r == F_visit(grid, t, F_nb(x, y), Tail(q), seen)
               IN F_bfs(grid, t, r.q, r.seen,
                        Append(out, [x |-> x, y |-> y, id |-> cell.id]))

F_groupAt(grid, sx, sy) ==
  LET start == grid[sy][sx]
  IN IF start = Null THEN << >>
     ELSE F_bfs(grid, start.t, << <<sx, sy>> >>, {F_key(sx, sy)}, << >>)

(***************************************************************************)
(* Physics (fragments): gravity + center-out column compaction             *)
(***************************************************************************)
\* a faulty stack: the column is read from the top row downwards
F_stackTopDown(grid, x) ==
  SelectSeq([i \in 1..FROWS |-> grid[i - 1][x]], LAMBDA c : c # Null)

\* the stack of column x: its tiles from the bottom row upwards
F_stack(grid, x) ==
  SelectSeq([i \in 1..FROWS |-> grid[FROWS - i][x]], LAMBDA c : c # Null)

\* a faulty applyGravity: the write index starts one row too low, so the last
\* tile of every stack is written outside the column
F_applyGravityShort(grid) ==
  [y \in FYs |-> [x \in FXs |->
     LET stack == F_stack(grid, x)
         k == (FROWS - 1) - y
     IN IF k < Len(stack) - 1 THEN stack[k + 1] ELSE Null]]

F_applyGravity(grid) ==
  [y \in FYs |-> [x \in FXs |->
     LET stack == F_stack(grid, x)
         k == (FROWS - 1) - y
     IN IF k < Len(stack) THEN stack[k + 1] ELSE Null]]

F_isColEmpty(grid, x) == \A y \in FYs : grid[y][x] = Null

\* a faulty compaction: the non-empty columns are packed against the left edge
F_compressColsLeft(grid) ==
  LET nonEmpty == SelectSeq([i \in 1..FCOLS |-> i - 1],
                            LAMBDA x : ~F_isColEmpty(grid, x))
  IN [y \in FYs |-> [x \in FXs |->
        IF x < Len(nonEmpty) THEN grid[y][nonEmpty[x + 1]] ELSE Null]]

F_centerOutCompressCols(grid) ==
  LET nonEmpty == SelectSeq([i \in 1..FCOLS |-> i - 1],
                            LAMBDA x : ~F_isColEmpty(grid, x))
      centerRight == FCOLS \div 2
      centerLeft == centerRight - 1
      leftCols == SelectSeq(nonEmpty, LAMBDA x : x <= centerLeft)
      rightCols == SelectSeq(nonEmpty, LAMBDA x : x > centerLeft)
      \* the source column written to column wx, or -1 when none is
      src(wx) ==
        IF wx <= centerLeft
        THEN IF centerLeft - wx < Len(leftCols)
             THEN leftCols[Len(leftCols) - (centerLeft - wx)] ELSE -1
        ELSE IF wx - centerRight < Len(rightCols)
             THEN rightCols[(wx - centerRight) + 1] ELSE -1
  IN IF Len(nonEmpty) = 0 \/ Len(nonEmpty) = FCOLS THEN grid
     ELSE [y \in FYs |-> [x \in FXs |->
             IF src(x) = -1 THEN Null ELSE grid[y][src(x)]]]

\* a faulty settle: the column compaction is left out
F_settleGravityOnly(grid) == F_applyGravity(grid)

\* centerOutCompressCols(applyGravity(next)) as both click branches call it
F_settle(grid) == F_centerOutCompressCols(F_applyGravity(grid))

(***************************************************************************)
(* Line push (fragments): shift up, add the bottom line                    *)
(***************************************************************************)
F_topRowHasTile(grid) == \E x \in FXs : grid[0][x] # Null

\* a faulty pushLine: the top row is tested after the shift, so an overflowing
\* board is shifted and its new tiles are created before gameOver is reported
F_pushLineEager(grid, n, nextLineTiles) ==
  [grid |-> [y \in FYs |-> [x \in FXs |->
               IF y < FROWS - 1 THEN grid[y + 1][x]
               ELSE F_newTile(n + x, nextLineTiles[x + 1].t,
                              nextLineTiles[x + 1].bomb)]],
   gameOver |-> \E x \in FXs : grid[0][x] # Null,
   n |-> n + FCOLS]

\* returns the grid, gameOver and the idGen counter after the call
F_pushLine(grid, n, nextLineTiles) ==
  IF F_topRowHasTile(grid) THEN [grid |-> grid, gameOver |-> TRUE, n |-> n]
  ELSE [grid |-> [y \in FYs |-> [x \in FXs |->
                    IF y < FROWS - 1 THEN grid[y + 1][x]
                    ELSE F_newTile(n + x, nextLineTiles[x + 1].t,
                                   nextLineTiles[x + 1].bomb)]],
        gameOver |-> FALSE,
        n |-> n + FCOLS]

\* levelFromRemoved(removed).level > 1, i.e. allowBombs
F_allowBombs(removed) == removed >= FLEVEL_BASE

\* Math.random() outcomes are drawn from a small family of rows: the kinds of
\* row k are t(x) = (x div (k + 1)) mod FTYPES (0101.., 0011.., ...), with at most
\* one bomb, in one of the first FBombCols columns
F_rowKind(k, x) == (x \div (k + 1)) % FTYPES

\* the rows makeNextLineTiles(allowBombs) can return
F_NextLines(allowBombs) ==
  { [i \in 1..FCOLS |-> [t |-> F_rowKind(k, i - 1), bomb |-> (i - 1 = b)]] :
    k \in 0..(FRowPatterns - 1),
    b \in IF allowBombs THEN (-1)..(FBombCols - 1) ELSE {-1} }

\* the grids seedGrid(idGen, false) can return, ids from n upwards
F_SeedGrids(n) ==
  { [y \in FYs |-> [x \in FXs |->
       IF y >= FROWS - FSTART_LINES
       THEN F_newTile(n + (y - (FROWS - FSTART_LINES)) * FCOLS + x,
                      rows[y - (FROWS - FSTART_LINES)][x + 1].t, FALSE)
       ELSE Null]] :
    rows \in [0..(FSTART_LINES - 1) -> F_NextLines(FALSE)] }

(***************************************************************************)
(* fragments App: handlers, timeouts and the line-push tick                *)
(***************************************************************************)
F_Ev(op, a) == [op |-> op, a |-> a]

\* first render of App: useRef/useState initialisers
FInit ==
  /\ f_idn = 1 + FSTART_LINES * FCOLS
  /\ f_grid \in F_SeedGrids(1)
  /\ f_nextLine \in F_NextLines(FALSE)
  /\ f_removed = 0
  /\ f_score = 0
  /\ f_locked = FALSE
  /\ f_gameOver = FALSE
  /\ f_gameStarted = FALSE
  /\ f_acc = 0
  /\ f_popQ = << >>
  /\ f_pads = << >>
  /\ f_resets = 0
  /\ f_ev = F_Ev("init", 0)

\* reset(): a new idGen, a new seeded grid; pending timeouts are not cleared
F_resetBody ==
  /\ f_gameStarted' = TRUE
  /\ f_idn' = 1 + FSTART_LINES * FCOLS
  /\ f_removed' = 0
  /\ f_grid' \in F_SeedGrids(1)
  /\ f_nextLine' \in F_NextLines(FALSE)
  /\ f_score' = 0
  /\ f_locked' = FALSE
  /\ f_gameOver' = FALSE
  /\ f_acc' = 0
  /\ f_popQ' = [i \in 1..Len(f_popQ) |-> [f_popQ[i] EXCEPT !.stale = TRUE]]
  /\ f_pads' = [i \in 1..Len(f_pads) |-> TRUE]
  /\ f_ev' = F_Ev("reset", 0)

\* the START overlay: startGame()
FStartGame ==
  /\ ~f_gameStarted
  /\ F_resetBody
  /\ UNCHANGED f_resets

\* the RESET button (disabled until the game has started)
FReset ==
  /\ f_gameStarted
  /\ f_resets < FMaxResets
  /\ f_resets' = f_resets + 1
  /\ F_resetBody

\* a faulty bomb sweep: bombs are spared
F_bombTargetsSparingBombs(grid, t) ==
  { c \in FXs \X FYs : /\ grid[c[2]][c[1]] # Null
                        /\ grid[c[2]][c[1]].t = t
                        /\ ~grid[c[2]][c[1]].bomb }

\* the tiles a bomb click removes: every tile of the bomb's kind
F_bombTargets(grid, t) ==
  { c \in FXs \X FYs : grid[c[2]][c[1]] # Null /\ grid[c[2]][c[1]].t = t }

\* next = cloneGrid(grid) with the cells of `cells` set to null
F_removeCells(grid, cells) ==
  [y \in FYs |-> [x \in FXs |-> IF <<x, y>> \in cells THEN Null ELSE grid[y][x]]]

F_groupCells(g) == { <<g[i].x, g[i].y>> : i \in 1..Len(g) }

F_groupIds(g) == { g[i].id : i \in 1..Len(g) }

\* the part of onCellClick after a removal was decided: lock, score, timeout
F_accept(op, cells, removing, count) ==
  /\ f_score + count * count <= FMaxScore
  /\ Len(f_popQ) < FMaxPending
  /\ f_locked' = TRUE
  /\ f_score' = f_score + count * count
  /\ f_removed' = f_removed + count
  /\ f_popQ' = Append(f_popQ, [after |-> F_settle(F_removeCells(f_grid, cells)),
                               removing |-> removing, stale |-> FALSE])
  /\ f_ev' = F_Ev(op, count)
  /\ UNCHANGED <<f_grid, f_nextLine, f_idn, f_gameOver, f_gameStarted, f_acc, f_pads, f_resets>>

\* a handler that returns without any update of the game state; op names the
\* return taken ("miss" is the one after setMissAt and playSfx("miss"))
F_noop(op) ==
  /\ f_ev' = F_Ev(op, 0)
  /\ UNCHANGED <<f_grid, f_nextLine, f_idn, f_removed, f_score, f_locked, f_gameOver,
                 f_gameStarted, f_acc, f_popQ, f_pads, f_resets>>

FCellClick(x, y) ==
  /\ f_gameStarted /\ ~f_locked /\ ~f_gameOver
  /\ LET target == f_grid[y][x]
         g == F_groupAt(f_grid, x, y)
     IN IF target = Null THEN F_noop("empty")
        ELSE IF target.bomb
        THEN LET cells == F_bombTargets(f_grid, target.t)
             IN F_accept("bomb", cells, { f_grid[c[2]][c[1]].id : c \in cells },
                         Cardinality(cells))
        ELSE IF Len(g) < F_MIN_GROUP THEN F_noop("miss")
        ELSE F_accept("hit", F_groupCells(g), F_groupIds(g), Len(g))

\* the PAUSE / RESUME button: setLocked(v => !v)
FPauseButton ==
  /\ f_gameStarted /\ ~f_gameOver
  /\ f_locked' = ~f_locked
  /\ f_ev' = F_Ev("pause", 0)
  /\ UNCHANGED <<f_grid, f_nextLine, f_idn, f_removed, f_score, f_gameOver,
                 f_gameStarted, f_acc, f_popQ, f_pads, f_resets>>

\* a faulty tick: the `if (locked || gameOver) return;` line is left out
FTickUnheld ==
  /\ f_gameStarted
  /\ IF f_acc + 1 < FInterval
     THEN /\ f_acc' = f_acc + 1
          /\ f_ev' = F_Ev("tick", 0)
          /\ UNCHANGED <<f_grid, f_nextLine, f_idn, f_removed, f_score, f_locked,
                         f_gameOver, f_gameStarted, f_popQ, f_pads, f_resets>>
     ELSE LET res == F_pushLine(f_grid, f_idn, f_nextLine)
          IN IF res.gameOver
             THEN /\ f_gameOver' = TRUE
                  /\ f_locked' = TRUE
                  /\ f_acc' = 0
                  /\ f_ev' = F_Ev("overflow", 0)
                  /\ UNCHANGED <<f_grid, f_nextLine, f_idn, f_removed, f_score,
                                 f_gameStarted, f_popQ, f_pads, f_resets>>
             ELSE /\ res.n - 1 <= FMaxId
                  /\ f_grid' = res.grid
                  /\ f_idn' = res.n
                  /\ f_nextLine' \in F_NextLines(F_allowBombs(f_removed))
                  /\ f_acc' = 0
                  /\ f_ev' = F_Ev("push", 0)
                  /\ UNCHANGED <<f_removed, f_score, f_locked, f_gameOver,
                                 f_gameStarted, f_popQ, f_pads, f_resets>>

\* one requestAnimationFrame tick of the line push loop
FTick ==
  /\ f_gameStarted
  /\ IF f_locked \/ f_gameOver THEN F_noop("tickHeld")
     ELSE IF f_acc + 1 < FInterval
     THEN /\ f_acc' = f_acc + 1
          /\ f_ev' = F_Ev("tick", 0)
          /\ UNCHANGED <<f_grid, f_nextLine, f_idn, f_removed, f_score, f_locked,
                         f_gameOver, f_gameStarted, f_popQ, f_pads, f_resets>>
     ELSE LET res == F_pushLine(f_grid, f_idn, f_nextLine)
          IN IF res.gameOver
             THEN /\ f_gameOver' = TRUE
                  /\ f_locked' = TRUE
                  /\ f_acc' = 0
                  /\ f_ev' = F_Ev("overflow", 0)
                  /\ UNCHANGED <<f_grid, f_nextLine, f_idn, f_removed, f_score,
                                 f_gameStarted, f_popQ, f_pads, f_resets>>
             ELSE /\ res.n - 1 <= FMaxId
                  /\ f_grid' = res.grid
                  /\ f_idn' = res.n
                  /\ f_nextLine' \in F_NextLines(F_allowBombs(f_removed))
                  /\ f_acc' = 0
                  /\ f_ev' = F_Ev("push", 0)
                  /\ UNCHANGED <<f_removed, f_score, f_locked, f_gameOver,
                                 f_gameStarted, f_popQ, f_pads, f_resets>>

\* the POP_MS timeout of an accepted click: setGrid(after), then the pad timeout
FPopTimeout ==
  /\ f_popQ # << >>
  /\ f_grid' = Head(f_popQ).after
  /\ f_popQ' = Tail(f_popQ)
  /\ f_pads' = Append(f_pads, Head(f_popQ).stale)
  /\ f_ev' = F_Ev("pop", 0)
  /\ UNCHANGED <<f_nextLine, f_idn, f_removed, f_score, f_locked, f_gameOver,
                 f_gameStarted, f_acc, f_resets>>

\* the LOCK_PAD_MS timeout: setLocked(false)
FPadTimeout ==
  /\ f_pads # << >>
  /\ f_locked' = FALSE
  /\ f_pads' = Tail(f_pads)
  /\ f_ev' = F_Ev("pad", 0)
  /\ UNCHANGED <<f_grid, f_nextLine, f_idn, f_removed, f_score, f_gameOver,
                 f_gameStarted, f_acc, f_popQ, f_resets>>



(***************************************************************************)
(* edgeflow: the board is ECOLS x EROWS (7 x 7 in the source) with ETYPES  *)
(* values (4 in the source); a bomb has value ETYPES + 1.                  *)
(***************************************************************************)
ECOLS == 3
EROWS == 3
ETYPES == 3

E_MIN_GROUP == 3
E_BOMB_THRESHOLD == 4
E_BOMB_RADIUS == 2
E_FLOW_CHANGE_THRESHOLD == 1

EXs == 0..(ECOLS - 1)
EYs == 0..(EROWS - 1)
ECells == EXs \X EYs

E_DIRS == <<"UP", "DOWN", "LEFT", "RIGHT">>

ENull == [id |-> 0, value |-> 0, bomb |-> FALSE]

E_newTile(id, value, bomb) == [id |-> id, value |-> value, bomb |-> bomb]

E_emptyGrid == [y \in EYs |-> [x \in EXs |-> ENull]]

E_inBounds(x, y) == x >= 0 /\ x < ECOLS /\ y >= 0 /\ y < EROWS

\* the cells in the order of the nested loops: for y ... for x ...
E_scanOrder == [i \in 1..(ECOLS * EROWS) |-> <<(i - 1) % ECOLS, (i - 1) \div ECOLS>>]

(***************************************************************************)
(* groupAt (edgeflow): breadth-first search, bombs excluded                *)
(***************************************************************************)
E_nb(x, y) == << <<x + 1, y>>, <<x - 1, y>>, <<x, y + 1>>, <<x, y - 1>> >>

RECURSIVE E_visit(_, _, _, _, _)
E_visit(grid, t, nbs, q, seen) ==
  IF nbs = << >> THEN [q |-> q, seen |-> seen]
  ELSE LET nx == Head(nbs)[1]
           ny == Head(nbs)[2]
       IN IF ~E_inBounds(nx, ny) THEN E_visit(grid, t, Tail(nbs), q, seen)
          ELSE IF <<nx, ny>> \in seen THEN E_visit(grid, t, Tail(nbs), q, seen)
          ELSE IF grid[ny][nx] # ENull /\ ~grid[ny][nx].bomb /\ grid[ny][nx].value = t
               THEN E_visit(grid, t, Tail(nbs), Append(q, <<nx, ny>>),
                            seen \cup {<<nx, ny>>})
               ELSE E_visit(grid, t, Tail(nbs), q, seen)

RECURSIVE E_bfs(_, _, _, _, _)
E_bfs(grid, t, q, seen, out) ==
  IF q = << >> THEN out
  ELSE LET x == Head(q)[1]
           y == Head(q)[2]
           cell == grid[y][x]
       IN IF cell = ENull \/ cell.bomb \/ cell.value # t
          THEN E_bfs(grid, t, Tail(q), seen, out)
          ELSE LET r == E_visit(grid, t, E_nb(x, y), Tail(q), seen)
               IN E_bfs(grid, t, r.q, r.seen,
                        Append(out, [x |-> x, y |-> y, id |-> cell.id]))

E_groupAt(grid, sx, sy) ==
  LET start == grid[sy][sx]
  IN IF start = ENull \/ start.bomb THEN << >>
     ELSE E_bfs(grid, start.value, << <<sx, sy>> >>, {<<sx, sy>>}, << >>)

E_groupCells(g) == { <<g[i].x, g[i].y>> : i \in 1..Len(g) }

(***************************************************************************)
(* computeGravity: the vote of the empty cells, with hysteresis            *)
(***************************************************************************)
E_min2(a, b) == IF a < b THEN a ELSE b

E_dist(dir, x, y) ==
  CASE dir = "UP" -> y
    [] dir = "DOWN" -> (EROWS - 1) - y
    [] dir = "LEFT" -> x
    [] dir = "RIGHT" -> (ECOLS - 1) - x

E_minDist(x, y) ==
  E_min2(E_min2(E_dist("UP", x, y), E_dist("DOWN", x, y)),
         E_min2(E_dist("LEFT", x, y), E_dist("RIGHT", x, y)))

\* a faulty count: every empty cell votes for every direction
E_votesAll(grid, dir) ==
  Cardinality({ c \in ECells : grid[c[2]][c[1]] = ENull })

E_votes(grid, dir) ==
  Cardinality({ c \in ECells : grid[c[2]][c[1]] = ENull
                               /\ E_dist(dir, c[1], c[2]) = E_minDist(c[1], c[2]) })

RECURSIVE E_best(_, _, _)
\* the loop `for (const dir of DIRS) if (votes[dir] > bestVotes) ...`
E_best(grid, dirs, best) ==
  IF dirs = << >> THEN best
  ELSE IF E_votes(grid, Head(dirs)) > E_votes(grid, best)
       THEN E_best(grid, Tail(dirs), Head(dirs))
       ELSE E_best(grid, Tail(dirs), best)

E_computeGravity(grid, current) ==
  LET anyEmpty == \E c \in ECells : grid[c[2]][c[1]] = ENull
      best == E_best(grid, E_DIRS, current)
  IN IF ~anyEmpty THEN current
     ELSE IF best = current THEN current
     ELSE IF E_votes(grid, best) - E_votes(grid, current) < E_FLOW_CHANGE_THRESHOLD
          THEN current
     ELSE best

(***************************************************************************)
(* applyGravity (edgeflow): compaction along one of the four directions    *)
(***************************************************************************)
E_vertical(dir) == dir = "UP" \/ dir = "DOWN"
E_towardStart(dir) == dir = "UP" \/ dir = "LEFT"
E_maxAxis(dir) == IF E_vertical(dir) THEN EROWS ELSE ECOLS
E_fixedMax(dir) == IF E_vertical(dir) THEN ECOLS ELSE EROWS

\* the cell of line `fixed` at axis position `pos`
E_at(grid, dir, fixed, pos) ==
  IF E_vertical(dir) THEN grid[pos][fixed] ELSE grid[fixed][pos]

\* a faulty read order: every line is read from index 0 upwards
E_readsFromStart(grid, dir, fixed) ==
  SelectSeq([i \in 1..E_maxAxis(dir) |-> i - 1],
            LAMBDA pos : E_at(grid, dir, fixed, pos) # ENull)

\* the positions read in line `fixed` that hold a tile, in reading order
E_reads(grid, dir, fixed) ==
  SelectSeq([i \in 1..E_maxAxis(dir) |->
               IF E_towardStart(dir) THEN i - 1 ELSE E_maxAxis(dir) - i],
            LAMBDA pos : E_at(grid, dir, fixed, pos) # ENull)

\* a faulty write index: `write` always starts at 0 and steps by 1
E_writeFromStart(dir, j) == j - 1

\* the position the j-th tile read is written to
E_write(dir, j) == IF E_towardStart(dir) THEN j - 1 ELSE E_maxAxis(dir) - j

E_applyGravity(grid, dir) ==
  LET cellAt(fixed, pos) ==
        LET reads == E_reads(grid, dir, fixed)
            j == IF E_towardStart(dir) THEN pos + 1 ELSE E_maxAxis(dir) - pos
        IN IF j <= Len(reads) THEN E_at(grid, dir, fixed, reads[j]) ELSE ENull
  IN [grid |-> [y \in EYs |-> [x \in EXs |->
                  IF E_vertical(dir) THEN cellAt(x, y) ELSE cellAt(y, x)]],
      moved |-> \E fixed \in 0..(E_fixedMax(dir) - 1) :
                  \E j \in 1..Len(E_reads(grid, dir, fixed)) :
                    E_write(dir, j) # E_reads(grid, dir, fixed)[j]]

(***************************************************************************)
(* fillEmpties, hasAvailableMoves, countPlayableCells, shuffleGrid         *)
(***************************************************************************)
\* the empty cells in scan order
E_empties(grid) == SelectSeq(E_scanOrder, LAMBDA c : grid[c[2]][c[1]] = ENull)

\* the tiles' cells in scan order
E_occupied(grid) == SelectSeq(E_scanOrder, LAMBDA c : grid[c[2]][c[1]] # ENull)

\* position of cell c in a sequence of cells that holds it
E_indexOf(cells, c) == CHOOSE i \in 1..Len(cells) : cells[i] = c

\* a faulty fillEmpties: the values are those of randomValue() without its + 1
E_fillEmptiesZeroBased(grid, n, vals) ==
  LET em == E_empties(grid)
  IN [grid |-> [y \in EYs |-> [x \in EXs |->
                  IF grid[y][x] = ENull
                  THEN E_newTile(n + E_indexOf(em, <<x, y>>) - 1,
                                 vals[E_indexOf(em, <<x, y>>)] - 1, FALSE)
                  ELSE grid[y][x]]],
      spawnIds |-> { n + i - 1 : i \in 1..Len(em) },
      n |-> n + Len(em)]

\* a faulty fillEmpties: idGen is called once and its id given to every new tile
E_fillEmptiesOneId(grid, n, vals) ==
  LET em == E_empties(grid)
  IN [grid |-> [y \in EYs |-> [x \in EXs |->
                  IF grid[y][x] = ENull
                  THEN E_newTile(n, vals[E_indexOf(em, <<x, y>>)], FALSE)
                  ELSE grid[y][x]]],
      spawnIds |-> IF Len(em) = 0 THEN {} ELSE {n},
      n |-> IF Len(em) = 0 THEN n ELSE n + 1]

\* fillEmpties(grid, idGen) when randomValue() returns vals[1], vals[2], ...;
\* n is the idGen counter before the call
E_fillEmpties(grid, n, vals) ==
  LET em == E_empties(grid)
  IN [grid |-> [y \in EYs |-> [x \in EXs |->
                  IF grid[y][x] = ENull
                  THEN E_newTile(n + E_indexOf(em, <<x, y>>) - 1,
                                 vals[E_indexOf(em, <<x, y>>)], FALSE)
                  ELSE grid[y][x]]],
      spawnIds |-> { n + i - 1 : i \in 1..Len(em) },
      n |-> n + Len(em)]

\* a faulty hasAvailableMoves: the group threshold is off by one
\* (g.length >= MIN_GROUP - 1)
E_hasAvailableMovesLow(grid) ==
  \E c \in ECells :
    /\ grid[c[2]][c[1]] # ENull
    /\ \/ grid[c[2]][c[1]].bomb
       \/ Len(E_groupAt(grid, c[1], c[2])) >= E_MIN_GROUP - 1

RECURSIVE E_scanMovesByKind(_, _, _)
\* a faulty seen-set: every cell of the group's value is marked as seen, joined
\* to the group or not
E_scanMovesByKind(grid, cells, seen) ==
  IF cells = << >> THEN FALSE
  ELSE LET x == Head(cells)[1]
           y == Head(cells)[2]
           cell == grid[y][x]
           group == E_groupAt(grid, x, y)
       IN IF cell = ENull THEN E_scanMovesByKind(grid, Tail(cells), seen)
          ELSE IF cell.bomb THEN TRUE
          ELSE IF <<x, y>> \in seen THEN E_scanMovesByKind(grid, Tail(cells), seen)
          ELSE IF Len(group) >= E_MIN_GROUP THEN TRUE
          ELSE E_scanMovesByKind(grid, Tail(cells),
                 seen \cup { c \in ECells : /\ grid[c[2]][c[1]] # ENull
                                             /\ grid[c[2]][c[1]].value = cell.value })

RECURSIVE E_scanMoves(_, _, _)
\* the scan of hasAvailableMoves over the remaining cells, with its seen-set
E_scanMoves(grid, cells, seen) ==
  IF cells = << >> THEN FALSE
  ELSE LET x == Head(cells)[1]
           y == Head(cells)[2]
           cell == grid[y][x]
           group == E_groupAt(grid, x, y)
       IN IF cell = ENull THEN E_scanMoves(grid, Tail(cells), seen)
          ELSE IF cell.bomb THEN TRUE
          ELSE IF <<x, y>> \in seen THEN E_scanMoves(grid, Tail(cells), seen)
          ELSE IF Len(group) >= E_MIN_GROUP THEN TRUE
          ELSE E_scanMoves(grid, Tail(cells), seen \cup E_groupCells(group))

E_hasAvailableMoves(grid) == E_scanMoves(grid, E_scanOrder, {})

RECURSIVE E_scanCount(_, _, _, _)
E_scanCount(grid, cells, seen, count) ==
  IF cells = << >> THEN count
  ELSE LET x == Head(cells)[1]
           y == Head(cells)[2]
           cell == grid[y][x]
           group == E_groupAt(grid, x, y)
       IN IF cell = ENull \/ cell.bomb THEN E_scanCount(grid, Tail(cells), seen, count)
          ELSE IF <<x, y>> \in seen THEN E_scanCount(grid, Tail(cells), seen, count)
          ELSE E_scanCount(grid, Tail(cells), seen \cup E_groupCells(group),
                           IF Len(group) >= E_MIN_GROUP THEN count + Len(group)
                           ELSE count)

E_countPlayableCells(grid) == E_scanCount(grid, E_scanOrder, {}, 0)

RECURSIVE E_fisherYatesCopy(_, _, _)
\* a faulty swap: values[i] = values[j] without the write back to values[j]
E_fisherYatesCopy(values, i, js) ==
  IF i <= 0 THEN values
  ELSE E_fisherYatesCopy([values EXCEPT ![i + 1] = values[js[i] + 1]], i - 1, js)

RECURSIVE E_fisherYates(_, _, _)
\* the loop `for (i = values.length - 1; i > 0; i--) swap(values[i], values[j])`
\* on a 1-based sequence: i is the 0-based index, js[i] the j drawn for i
E_fisherYates(values, i, js) ==
  IF i <= 0 THEN values
  ELSE LET j == js[i]
       IN E_fisherYates([values EXCEPT ![i + 1] = values[j + 1],
                                       ![j + 1] = values[i + 1]], i - 1, js)

\* shuffleGrid(grid) when Math.random() makes the loop draw js[i] for index i
E_shuffleGrid(grid, js) ==
  LET tiles == E_occupied(grid)
      values == [k \in 1..Len(tiles) |->
                   [value |-> grid[tiles[k][2]][tiles[k][1]].value,
                    bomb |-> grid[tiles[k][2]][tiles[k][1]].bomb]]
      shuffled == E_fisherYates(values, Len(values) - 1, js)
  IN [y \in EYs |-> [x \in EXs |->
        IF grid[y][x] = ENull THEN ENull
        ELSE [id |-> grid[y][x].id,
              value |-> shuffled[E_indexOf(tiles, <<x, y>>)].value,
              bomb |-> shuffled[E_indexOf(tiles, <<x, y>>)].bomb]]]

(***************************************************************************)
(* detonateBomb: the blast diamonds of the clicked bomb and of every bomb  *)
(* caught in a blast                                                       *)
(***************************************************************************)
E_abs(a) == IF a < 0 THEN -a ELSE a

\* inBounds(nx, ny) on the board at hand
E_onBoard(grid, x, y) == y \in DOMAIN grid /\ x \in DOMAIN grid[y]

\* a faulty blast shape: the whole square of side 2 * BOMB_RADIUS + 1
E_diamondSquare(grid, x, y) ==
  LET n == 2 * E_BOMB_RADIUS + 1
      all == [i \in 1..(n * n) |->
                <<x + ((i - 1) % n) - E_BOMB_RADIUS, y + ((i - 1) \div n) - E_BOMB_RADIUS>>]
  IN SelectSeq(all, LAMBDA c :
       E_onBoard(grid, c[1], c[2]) /\ grid[c[2]][c[1]] # ENull)

\* the in-bounds occupied cells of the diamond around (x, y), in loop order
E_diamond(grid, x, y) ==
  LET n == 2 * E_BOMB_RADIUS + 1
      all == [i \in 1..(n * n) |->
                <<x + ((i - 1) % n) - E_BOMB_RADIUS, y + ((i - 1) \div n) - E_BOMB_RADIUS>>]
  IN SelectSeq(all, LAMBDA c :
       /\ E_abs(c[1] - x) <= E_BOMB_RADIUS - E_abs(c[2] - y)
       /\ E_onBoard(grid, c[1], c[2])
       /\ grid[c[2]][c[1]] # ENull)

RECURSIVE E_blastRecount(_, _, _, _, _, _)
\* a faulty blast: removedCount is increased for every visit of a cell
E_blastRecount(grid, cells, queue, queued, removeKeys, removedCount) ==
  IF cells = << >>
  THEN [queue |-> queue, queued |-> queued, removeKeys |-> removeKeys,
        removedCount |-> removedCount]
  ELSE LET c == Head(cells)
           enq == grid[c[2]][c[1]].bomb /\ c \notin queued
       IN E_blastRecount(grid, Tail(cells),
                         IF enq THEN Append(queue, c) ELSE queue,
                         IF enq THEN queued \cup {c} ELSE queued,
                         removeKeys \cup {c},
                         removedCount + 1)

RECURSIVE E_blast(_, _, _, _, _, _)
\* the cells of one diamond: returns [queue, queued, removeKeys, removedCount]
E_blast(grid, cells, queue, queued, removeKeys, removedCount) ==
  IF cells = << >>
  THEN [queue |-> queue, queued |-> queued, removeKeys |-> removeKeys,
        removedCount |-> removedCount]
  ELSE LET c == Head(cells)
           isNew == c \notin removeKeys
           enq == grid[c[2]][c[1]].bomb /\ c \notin queued
       IN E_blast(grid, Tail(cells),
                  IF enq THEN Append(queue, c) ELSE queue,
                  IF enq THEN queued \cup {c} ELSE queued,
                  removeKeys \cup {c},
                  IF isNew THEN removedCount + 1 ELSE removedCount)

RECURSIVE E_detonateLoop(_, _, _, _, _, _)
\* the while loop; shifted lists the origins taken off the queue, in order
E_detonateLoop(grid, queue, queued, removeKeys, removedCount, shifted) ==
  IF queue = << >>
  THEN [removeKeys |-> removeKeys, removedCount |-> removedCount, shifted |-> shifted]
  ELSE LET r == E_blast(grid, E_diamond(grid, Head(queue)[1], Head(queue)[2]),
                        Tail(queue), queued, removeKeys, removedCount)
       IN E_detonateLoop(grid, r.queue, r.queued, r.removeKeys, r.removedCount,
                         Append(shifted, Head(queue)))

\* the removal part of detonateBomb(cx, cy)
E_detonate(grid, cx, cy) ==
  E_detonateLoop(grid, << <<cx, cy>> >>, {<<cx, cy>>}, {}, 0, << >>)

\* next = cloneGrid(grid) with the cells set to null
E_removeCells(grid, cells) ==
  [y \in DOMAIN grid |-> [x \in DOMAIN grid[y] |->
     IF <<x, y>> \in cells THEN ENull ELSE grid[y][x]]]

(***************************************************************************)
(* Random draws.  Math.random() outcomes are drawn from small families.    *)
(***************************************************************************)
ESeedKinds == 2
ESeedCorners == 2
EFillKinds == 2
EShuffleKinds == 2
E_START_SHUFFLES == 18
E_START_PLAYABLE_CELLS == ((ECOLS * EROWS * 34) + 99) \div 100

\* the values of the tiles fillEmpties creates for the empty cells em: kind 0
\* cycles through the values along the fill order, kind p > 0 alternates two
\* values with the parity of x + p * y
E_FillDraws(em) ==
  { [i \in 1..Len(em) |->
       (((IF p = 0 THEN i - 1 ELSE (em[i][1] + (p * em[i][2])) % 2) + o) % ETYPES) + 1] :
    p \in 0..(EFillKinds - 1), o \in 0..(ETYPES - 1) }

\* the j drawn for each index i of the Fisher-Yates loop over len values:
\* kind 0 draws j = i (no swap), kind r > 0 draws j = max(0, i - r)
E_ShuffleDraws(len) ==
  { [i \in 1..len |-> IF r = 0 THEN i ELSE IF i - r < 0 THEN 0 ELSE i - r] :
    r \in 0..(EShuffleKinds - 1) }

E_shuffles(grid) == { E_shuffleGrid(grid, js) : js \in E_ShuffleDraws(Len(E_occupied(grid))) }

\* seedGrid(idGen) with idGen at 1: its do-while gives up after TYPES * 3 draws,
\* so it can return any value at any cell; the model draws two-value stripes
\* (kind 0 along x, kind 1 along y, kind k > 1 along x + (k + 1) div 2 * y), with
\* the last value in the corner x + y >= ECOLS + EROWS - 3 * c
E_SeedGrids ==
  { [y \in EYs |-> [x \in EXs |->
       E_newTile(y * ECOLS + x + 1,
                 IF x + y >= ECOLS + EROWS - (3 * c) THEN ETYPES
                 ELSE ((((IF k = 1 THEN 0 ELSE x) + (((k + 1) \div 2) * y)) % 2) + 1),
                 FALSE)]] :
    k \in 0..(ESeedKinds - 1), c \in 0..(ESeedCorners - 1) }

RECURSIVE E_ensurePlayableEager(_, _, _)
\* a faulty ensurePlayable: the loop tests the guard only
E_ensurePlayableEager(g, guard, calls) ==
  IF guard > 0
  THEN UNION { E_ensurePlayableEager(h, guard - 1, calls + 1) : h \in E_shuffles(g) }
  ELSE { [grid |-> g, calls |-> calls] }

RECURSIVE E_ensurePlayable(_, _, _)
\* the runs of ensurePlayable(g, guard): the board returned and the number of
\* shuffleGrid calls made, calls being those made so far
E_ensurePlayable(g, guard, calls) ==
  IF guard > 0 /\ ~E_hasAvailableMoves(g)
  THEN UNION { E_ensurePlayable(h, guard - 1, calls + 1) : h \in E_shuffles(g) }
  ELSE { [grid |-> g, calls |-> calls] }

RECURSIVE E_ensurePlayableSet(_, _)
\* the boards ensurePlayable(g, guard) can return for g in S
E_ensurePlayableSet(S, guard) ==
  IF guard <= 0 \/ S = {} THEN S
  ELSE { g \in S : E_hasAvailableMoves(g) }
       \cup E_ensurePlayableSet(UNION { E_shuffles(g) : g \in { h \in S : ~E_hasAvailableMoves(h) } },
                                guard - 1)

\* a faulty acceptance test: countPlayableCells(g) >= minCells is left out
E_areaOkMovesOnly(g, minCells) == E_hasAvailableMoves(g)

E_areaOk(g, minCells) == E_hasAvailableMoves(g) /\ E_countPlayableCells(g) >= minCells

RECURSIVE E_areaLoop(_, _, _)
\* the while (guard > 0) loop of ensurePlayableArea: returns [done, left], the boards
\* returned from inside the loop and those the loop ends with
E_areaLoop(S, minCells, guard) ==
  IF guard <= 0 \/ S = {} THEN [done |-> {}, left |-> S]
  ELSE LET r == E_areaLoop(UNION { E_shuffles(g) : g \in { h \in S : ~E_areaOk(h, minCells) } },
                           minCells, guard - 1)
       IN [done |-> { g \in S : E_areaOk(g, minCells) } \cup r.done, left |-> r.left]

\* the boards ensurePlayableArea(grid, minCells, maxShuffles) can return
E_ensurePlayableArea(grid, minCells, maxShuffles) ==
  LET r == E_areaLoop(E_ensurePlayableSet({grid}, maxShuffles), minCells, maxShuffles)
  IN r.done \cup { g \in r.left : E_hasAvailableMoves(g) }
            \cup E_ensurePlayableSet({ g \in r.left : ~E_hasAvailableMoves(g) }, maxShuffles)

RECURSIVE E_ensureRuns(_, _)
\* ensurePlayable(g, guard) continued from the runs S, each a board with the
\* number of shuffleGrid calls made so far
E_ensureRuns(S, guard) ==
  IF guard <= 0 \/ S = {} THEN S
  ELSE { r \in S : E_hasAvailableMoves(r.grid) }
       \cup E_ensureRuns(UNION { { [r EXCEPT !.grid = h, !.calls = r.calls + 1] :
                                     h \in E_shuffles(r.grid) } :
                                 r \in { q \in S : ~E_hasAvailableMoves(q.grid) } },
                         guard - 1)

RECURSIVE E_areaRuns(_, _, _)
\* the while (guard > 0) loop of ensurePlayableArea on the runs S: returns
\* [done, left], the runs that return from inside the loop and those the loop
\* ends with
E_areaRuns(S, minCells, guard) ==
  IF guard <= 0 \/ S = {} THEN [done |-> {}, left |-> S]
  ELSE LET r == E_areaRuns(UNION { { [q EXCEPT !.grid = h, !.calls = q.calls + 1] :
                                      h \in E_shuffles(q.grid) } :
                                  q \in { t \in S : ~E_areaOk(t.grid, minCells) } },
                           minCells, guard - 1)
       IN [done |-> { q \in S : E_areaOk(q.grid, minCells) } \cup r.done, left |-> r.left]

\* the runs of ensurePlayableArea(grid, minCells, maxShuffles): the board
\* returned, the number of shuffleGrid calls made, and whether the loop ran out
\* of its guard
E_ensurePlayableAreaRuns(grid, minCells, maxShuffles) ==
  LET first == E_ensureRuns({ [grid |-> grid, calls |-> 0, exhausted |-> FALSE] },
                            maxShuffles)
      r == E_areaRuns(first, minCells, maxShuffles)
      left == { [q EXCEPT !.exhausted = TRUE] : q \in r.left }
  IN r.done \cup { q \in left : E_hasAvailableMoves(q.grid) }
            \cup E_ensureRuns({ q \in left : ~E_hasAvailableMoves(q.grid) }, maxShuffles)

\* the boards of initState(idGen) for a fresh idGen
E_InitGrids ==
  UNION { E_ensurePlayableArea(g, E_START_PLAYABLE_CELLS, E_START_SHUFFLES) : g \in E_SeedGrids }

(***************************************************************************)
(* edgeflow App: reducer state, handlers, timers and the turn resolution   *)
(***************************************************************************)
ETimeLimit == 2
EMaxId == 15
EMaxRid == 4
EMaxTasks == 2

E_BLOCK_SCORE == 10
E_BOMB_CREATE_BONUS == 20
E_BOMB_DETONATE_BONUS == 10

E_Ev(op, rid, a) == [op |-> op, rid |-> rid, a |-> a]

\* first render: useReducer(reducer, null, () => initState(idGenRef.current))
EInit ==
  /\ e_grid \in E_InitGrids
  /\ e_gravity = "DOWN"
  /\ e_score = 0
  /\ e_timeLeft = ETimeLimit
  /\ e_gameStarted = FALSE
  /\ e_gameOver = FALSE
  /\ e_locked = FALSE
  /\ e_idn = ECOLS * EROWS + 1
  /\ e_rid = 0
  /\ e_removal = << >>
  /\ e_tasks = {}
  /\ e_unlocks = {}
  /\ e_ev = E_Ev("init", 0, "")

\* a faulty reset(): clearTimers and cancelResolution are left out
E_resetBodyKeepsTimers ==
  /\ e_rid < EMaxRid
  /\ e_idn' = ECOLS * EROWS + 1
  /\ e_grid' \in E_InitGrids
  /\ e_gravity' = "DOWN"
  /\ e_score' = 0
  /\ e_timeLeft' = ETimeLimit
  /\ e_gameStarted' = TRUE
  /\ e_gameOver' = FALSE
  /\ e_locked' = FALSE
  /\ e_ev' = E_Ev("reset", e_rid, "")
  /\ UNCHANGED <<e_rid, e_removal, e_tasks, e_unlocks>>

\* reset(): clearTimers, cancelResolution, a new idGen, RESET
E_resetBody ==
  /\ e_rid < EMaxRid
  /\ e_rid' = e_rid + 1
  /\ e_removal' = << >>
  /\ e_idn' = ECOLS * EROWS + 1
  /\ e_grid' \in E_InitGrids
  /\ e_gravity' = "DOWN"
  /\ e_score' = 0
  /\ e_timeLeft' = ETimeLimit
  /\ e_gameStarted' = TRUE
  /\ e_gameOver' = FALSE
  /\ e_locked' = FALSE
  /\ e_ev' = E_Ev("reset", e_rid + 1, "")
  /\ UNCHANGED <<e_tasks, e_unlocks>>

EStartGame == ~e_gameStarted /\ E_resetBody

EReset == e_gameStarted /\ E_resetBody

\* the setInterval countdown, together with the time-expiry effect that follows
\* the render in which timeLeftMs reaches 0
ETick ==
  /\ e_gameStarted /\ ~e_gameOver
  /\ LET next == IF e_timeLeft - 1 < 0 THEN 0 ELSE e_timeLeft - 1
     IN /\ e_timeLeft' = next
        /\ IF next > 0
           THEN /\ e_ev' = E_Ev("tick", e_rid, "")
                /\ UNCHANGED <<e_gameOver, e_locked>>
           ELSE /\ e_gameOver' = TRUE
                /\ e_locked' = TRUE
                /\ e_ev' = E_Ev("expire", e_rid, "")
  /\ UNCHANGED <<e_grid, e_gravity, e_score, e_gameStarted, e_idn, e_rid, e_removal,
                 e_tasks, e_unlocks>>

\* a faulty tail: the PATCH { locked: true } is left out
E_acceptNoLock(op, a, grid, next, delta) ==
  /\ e_idn + Len(E_empties(next)) - 1 <= EMaxId
  /\ e_rid < EMaxRid
  /\ Cardinality(e_tasks) < EMaxTasks
  /\ e_grid' = grid
  /\ e_score' = e_score + delta
  /\ e_removal' = << [next |-> next, gravity |-> e_gravity] >>
  /\ e_ev' = E_Ev(op, e_rid, a)
  /\ UNCHANGED <<e_gravity, e_timeLeft, e_gameStarted, e_gameOver, e_idn, e_rid,
                 e_tasks, e_unlocks, e_locked>>

\* the tail shared by onCellClick and detonateBomb: lock, score, removal timer
E_accept(op, a, grid, next, delta) ==
  /\ e_idn + Len(E_empties(next)) - 1 <= EMaxId
  /\ e_rid < EMaxRid
  /\ Cardinality(e_tasks) < EMaxTasks
  /\ e_grid' = grid
  /\ e_locked' = TRUE
  /\ e_score' = e_score + delta
  /\ e_removal' = << [next |-> next, gravity |-> e_gravity] >>
  /\ e_ev' = E_Ev(op, e_rid, a)
  /\ UNCHANGED <<e_gravity, e_timeLeft, e_gameStarted, e_gameOver, e_idn, e_rid,
                 e_tasks, e_unlocks>>

\* a faulty bomb creation: `tile.bomb = true` is left out
E_mutateTileValueOnly(grid, id, v, b) ==
  [y \in EYs |-> [x \in EXs |->
     IF grid[y][x] # ENull /\ grid[y][x].id = id
     THEN [id |-> id, value |-> v, bomb |-> grid[y][x].bomb] ELSE grid[y][x]]]

\* a tile object is shared by every grid that holds it: tile.value = v; tile.bomb = b
E_mutateTile(grid, id, v, b) ==
  [y \in EYs |-> [x \in EXs |->
     IF grid[y][x] # ENull /\ grid[y][x].id = id
     THEN [id |-> id, value |-> v, bomb |-> b] ELSE grid[y][x]]]

ECellClick(x, y) ==
  /\ e_gameStarted /\ ~e_locked /\ ~e_gameOver
  /\ LET target == e_grid[y][x]
         g == E_groupAt(e_grid, x, y)
         makeBomb == Len(g) >= E_BOMB_THRESHOLD
         removed == IF makeBomb THEN E_groupCells(g) \ {<<x, y>>} ELSE E_groupCells(g)
         removedCount == Cardinality(removed)
         cleared == E_removeCells(e_grid, removed)
         blast == E_detonate(e_grid, x, y)
     IN IF target = ENull
        THEN /\ e_ev' = E_Ev("empty", e_rid, "")
             /\ UNCHANGED <<e_grid, e_gravity, e_score, e_timeLeft, e_gameStarted,
                            e_gameOver, e_locked, e_idn, e_rid, e_removal, e_tasks,
                            e_unlocks>>
        ELSE IF target.bomb
        THEN E_accept("bomb", "", e_grid, E_removeCells(e_grid, blast.removeKeys),
                      (blast.removedCount * E_BLOCK_SCORE) + E_BOMB_DETONATE_BONUS)
        ELSE IF Len(g) < E_MIN_GROUP
        THEN /\ e_ev' = E_Ev("miss", e_rid, "")
             /\ UNCHANGED <<e_grid, e_gravity, e_score, e_timeLeft, e_gameStarted,
                            e_gameOver, e_locked, e_idn, e_rid, e_removal, e_tasks,
                            e_unlocks>>
        ELSE IF makeBomb
        THEN E_accept("hit", "armed", E_mutateTile(e_grid, target.id, ETYPES + 1, TRUE),
                      E_mutateTile(cleared, target.id, ETYPES + 1, TRUE),
                      (removedCount * E_BLOCK_SCORE) + E_BOMB_CREATE_BONUS)
        ELSE E_accept("hit", "", e_grid, cleared, removedCount * E_BLOCK_SCORE)

\* a faulty token test: the `resolutionIdRef.current !== rid` returns are left out
E_isStaleNever(rid, current) == FALSE

\* `if (resolutionIdRef.current !== rid) return;`
E_isStale(rid, current) == rid # current

\* a continuation that finds its token stale returns without any update
E_drop(t) ==
  /\ e_tasks' = e_tasks \ {t}
  /\ e_ev' = E_Ev("stale", t.rid, "")
  /\ UNCHANGED <<e_grid, e_gravity, e_score, e_timeLeft, e_gameStarted, e_gameOver,
                 e_locked, e_idn, e_rid, e_removal, e_unlocks>>

\* a faulty start of resolveAfterRemoval: the SET_GRID of the post-removal
\* board is left out
ERemovalTimerNoHoles ==
  /\ e_removal # << >>
  /\ LET next == e_removal[1].next
         gravity == e_removal[1].gravity
         rid == e_rid + 1
         nextGravity == E_computeGravity(next, gravity)
     IN /\ e_rid' = rid
        /\ e_removal' = << >>
        /\ e_gravity' = IF nextGravity # gravity THEN nextGravity ELSE e_gravity
        /\ e_tasks' = e_tasks \cup {[rid |-> rid, pc |-> "frame1", nextGrid |-> next,
                                     gravity |-> nextGravity, shifted |-> next]}
        /\ e_ev' = E_Ev("holes", rid, "")
  /\ UNCHANGED <<e_grid, e_score, e_timeLeft, e_gameStarted, e_gameOver, e_locked, e_idn,
                 e_unlocks>>

\* a faulty start of resolveAfterRemoval: the vote is taken against "DOWN"
\* instead of the current direction
ERemovalTimerFromDown ==
  /\ e_removal # << >>
  /\ LET next == e_removal[1].next
         gravity == "DOWN"
         rid == e_rid + 1
         nextGravity == E_computeGravity(next, gravity)
     IN /\ e_rid' = rid
        /\ e_removal' = << >>
        /\ e_gravity' = IF nextGravity # gravity THEN nextGravity ELSE e_gravity
        /\ e_grid' = next
        /\ e_tasks' = e_tasks \cup {[rid |-> rid, pc |-> "frame1", nextGrid |-> next,
                                     gravity |-> nextGravity, shifted |-> next]}
        /\ e_ev' = E_Ev("holes", rid, "")
  /\ UNCHANGED <<e_score, e_timeLeft, e_gameStarted, e_gameOver, e_locked, e_idn,
                 e_unlocks>>

\* the removal timer fires: resolveAfterRemoval(next) up to its first await
ERemovalTimer ==
  /\ e_removal # << >>
  /\ LET next == e_removal[1].next
         gravity == e_removal[1].gravity
         rid == e_rid + 1
         nextGravity == E_computeGravity(next, gravity)
     IN /\ e_rid' = rid
        /\ e_removal' = << >>
        /\ e_gravity' = IF nextGravity # gravity THEN nextGravity ELSE e_gravity
        /\ e_grid' = next
        /\ e_tasks' = e_tasks \cup {[rid |-> rid, pc |-> "frame1", nextGrid |-> next,
                                     gravity |-> nextGravity, shifted |-> next]}
        /\ e_ev' = E_Ev("holes", rid, "")
  /\ UNCHANGED <<e_score, e_timeLeft, e_gameStarted, e_gameOver, e_locked, e_idn,
                 e_unlocks>>

\* addTimeBonus(REFILL_BONUS_MS) as called from the resolution: its closure saw
\* gameStarted and not gameOver when the click was accepted
E_addTimeBonus(t) == IF t + 1 > ETimeLimit THEN ETimeLimit ELSE t + 1

\* from fillEmpties to the end of resolveAfterRemoval
E_finish(t, shifted) ==
  \E vals \in E_FillDraws(E_empties(shifted)) :
   \E spawned \in {E_fillEmpties(shifted, e_idn, vals)} :
    LET stuck == ~E_hasAvailableMoves(spawned.grid)
    IN /\ e_idn' = spawned.n
       /\ e_timeLeft' = IF spawned.spawnIds # {} THEN E_addTimeBonus(e_timeLeft)
                        ELSE e_timeLeft
       /\ IF stuck
          THEN e_grid' \in E_shuffles(spawned.grid)
          ELSE e_grid' = spawned.grid
       /\ e_unlocks' = e_unlocks \cup {t.rid}
       /\ e_tasks' = e_tasks \ {t}
       /\ e_ev' = E_Ev("final", t.rid, IF stuck THEN "shuffled" ELSE "refilled")
       /\ UNCHANGED <<e_gravity, e_score, e_gameStarted, e_gameOver, e_locked, e_rid,
                      e_removal>>

\* the frame after the holes commit: applyGravity, the shifted commit
EFrame1 ==
  \E t \in e_tasks :
    /\ t.pc = "frame1"
    /\ IF E_isStale(t.rid, e_rid) THEN E_drop(t)
       ELSE \E r \in {E_applyGravity(t.nextGrid, t.gravity)} :
               IF r.moved
               THEN /\ e_grid' = r.grid
                    /\ e_tasks' = (e_tasks \ {t})
                                    \cup {[t EXCEPT !.pc = "frame2", !.shifted = r.grid]}
                    /\ e_ev' = E_Ev("shift", t.rid, "")
                    /\ UNCHANGED <<e_gravity, e_score, e_timeLeft, e_gameStarted,
                                   e_gameOver, e_locked, e_idn, e_rid, e_removal,
                                   e_unlocks>>
               ELSE E_finish(t, r.grid)

\* animateShiftWAAPI: the frame before the animations start
EFrame2 ==
  \E t \in e_tasks :
    /\ t.pc = "frame2"
    /\ IF E_isStale(t.rid, e_rid) THEN E_drop(t)
       ELSE /\ e_tasks' = (e_tasks \ {t}) \cup {[t EXCEPT !.pc = "anim"]}
            /\ e_ev' = E_Ev("animate", t.rid, "")
            /\ UNCHANGED <<e_grid, e_gravity, e_score, e_timeLeft, e_gameStarted,
                           e_gameOver, e_locked, e_idn, e_rid, e_removal, e_unlocks>>

\* the animations have settled: refill, shuffle check, final commit
EAnimDone ==
  \E t \in e_tasks :
    /\ t.pc = "anim"
    /\ IF E_isStale(t.rid, e_rid) THEN E_drop(t) ELSE E_finish(t, t.shifted)

\* a faulty LOCK_PAD timeout: the PATCH of locked is left out
EUnlockTimerIdle ==
  \E r \in e_unlocks :
    /\ e_unlocks' = e_unlocks \ {r}
    /\ e_ev' = E_Ev("stale", r, "")
    /\ UNCHANGED <<e_grid, e_gravity, e_score, e_timeLeft, e_gameStarted, e_gameOver,
                   e_locked, e_idn, e_rid, e_removal, e_tasks>>

\* the LOCK_PAD timeout
EUnlockTimer ==
  \E r \in e_unlocks :
    /\ e_unlocks' = e_unlocks \ {r}
    /\ IF E_isStale(r, e_rid)
       THEN /\ e_ev' = E_Ev("stale", r, "")
            /\ UNCHANGED e_locked
       ELSE /\ e_locked' = FALSE
            /\ e_ev' = E_Ev("unlock", r, "")
    /\ UNCHANGED <<e_grid, e_gravity, e_score, e_timeLeft, e_gameStarted, e_gameOver,
                   e_idn, e_rid, e_removal, e_tasks>>


(***************************************************************************)
(* Pure functions applied to input boards drawn from bounded families      *)
(***************************************************************************)
EProbeKinds == 2

PNone == <<-1, -1>>
PBombCells == {<<1, 1>>, <<0, 0>>}
PHoleCells == {<<2, 1>>, <<1, 0>>}

FCells == FXs \X FYs

\* full boards of every kind assignment, with at most one bomb and one hole
F_GroupInputs(types) ==
  { [y \in FYs |-> [x \in FXs |->
       IF <<x, y>> = hole THEN Null
       ELSE F_newTile(y * FCOLS + x + 1, kinds[y][x], <<x, y>> = bomb)]] :
    kinds \in [FYs -> [FXs -> 0..(types - 1)]],
    bomb \in PBombCells \cup {PNone}, hole \in PHoleCells \cup {PNone} }

E_GroupInputs(probeKinds) ==
  { [y \in EYs |-> [x \in EXs |->
       IF <<x, y>> = hole THEN ENull
       ELSE IF <<x, y>> = bomb THEN E_newTile(y * ECOLS + x + 1, ETYPES + 1, TRUE)
       ELSE E_newTile(y * ECOLS + x + 1, kinds[y][x], FALSE)]] :
    kinds \in [EYs -> [EXs -> 1..probeKinds]],
    bomb \in PBombCells \cup {PNone}, hole \in PHoleCells \cup {PNone} }

\* boards of every occupancy; the tile of a cell is fixed by the cell
F_SettleInputs(cells) ==
  { [y \in FYs |-> [x \in FXs |->
       IF <<x, y>> \in occ
       THEN F_newTile(y * FCOLS + x + 1, (y * FCOLS + x + 1) % FTYPES,
                      (y * FCOLS + x + 1) % 5 = 0)
       ELSE Null]] : occ \in SUBSET cells }

E_SettleInputs(cells) ==
  { [y \in EYs |-> [x \in EXs |->
       IF <<x, y>> \in occ
       THEN IF (y * ECOLS + x + 1) % 5 = 0
            THEN E_newTile(y * ECOLS + x + 1, ETYPES + 1, TRUE)
            ELSE E_newTile(y * ECOLS + x + 1, ((y * ECOLS + x + 1) % ETYPES) + 1, FALSE)
       ELSE ENull]] : occ \in SUBSET cells }

PInit(game, inputs) ==
  /\ p_game = game
  /\ p_grid \in inputs
  /\ p_fn = "none"
  /\ p_out = << >>

PApply(game, fn, out) ==
  /\ p_game = game
  /\ p_fn = "none"
  /\ p_fn' = fn
  /\ p_out' = out
  /\ UNCHANGED <<p_game, p_grid>>

\* groupAt(grid, x, y) for every seed cell
PGroupAtF == PApply("F", "groupAt", [c \in FCells |-> F_groupAt(p_grid, c[1], c[2])])
PGroupAtE == PApply("E", "groupAt", [c \in ECells |-> E_groupAt(p_grid, c[1], c[2])])

\* Policy A: centerOutCompressCols(applyGravity(grid))
PSettleF == PApply("F", "settle", F_settle(p_grid))

\* the two passes of Policy A, each on its own
PApplyGravityF == PApply("F", "applyGravity", F_applyGravity(p_grid))
PCompressColsF == PApply("F", "centerOutCompressCols", F_centerOutCompressCols(p_grid))

\* Policy B: applyGravity(grid, dir) for each direction
PGravityE ==
  PApply("E", "applyGravity",
         [d \in {"UP", "DOWN", "LEFT", "RIGHT"} |-> E_applyGravity(p_grid, d)])

\* computeGravity(grid, current) for every current direction, with the votes
PComputeGravityE ==
  PApply("E", "computeGravity",
         [votes |-> [d \in {"UP", "DOWN", "LEFT", "RIGHT"} |-> E_votes(p_grid, d)],
          result |-> [cur \in {"UP", "DOWN", "LEFT", "RIGHT"} |->
                        E_computeGravity(p_grid, cur)]])

\* ensurePlayable(grid, maxShuffles) for a shuffle budget up to EMaxShuffles
EMaxShuffles == 3

E_EnsureInputs(maxShuffles) ==
  { [grid |-> g, maxShuffles |-> m] : g \in E_GroupInputs(EProbeKinds), m \in 0..maxShuffles }

PEnsurePlayableE ==
  PApply("E", "ensurePlayable", E_ensurePlayable(p_grid.grid, p_grid.maxShuffles, 0))

\* hasAvailableMoves(grid) on boards of every kind assignment, with at most
\* one bomb and one hole
E_MoveInputs(types) ==
  { [y \in EYs |-> [x \in EXs |->
       IF <<x, y>> = hole THEN ENull
       ELSE IF <<x, y>> = bomb THEN E_newTile(y * ECOLS + x + 1, types + 1, TRUE)
       ELSE E_newTile(y * ECOLS + x + 1, kinds[y][x], FALSE)]] :
    kinds \in [EYs -> [EXs -> 1..types]],
    bomb \in PBombCells \cup {PNone}, hole \in PHoleCells \cup {PNone} }

PHasAvailableMovesE == PApply("E", "hasAvailableMoves", E_hasAvailableMoves(p_grid))

\* ensurePlayableArea(seeded, START_PLAYABLE_CELLS, maxShuffles): the seeded
\* boards seedGrid can return (full, no bomb, any value at any cell; up to a
\* renaming of the values the first cell holds 1) with no
\* budget and with a budget of EMaxShuffles, and the model's seeds with
\* START_SHUFFLES
E_SeedInputs(types) ==
  { [y \in EYs |-> [x \in EXs |-> E_newTile(y * ECOLS + x + 1, kinds[y][x], FALSE)]] :
    kinds \in { k \in [EYs -> [EXs -> 1..types]] : k[0][0] = 1 } }

E_AreaInputs(maxShuffles) ==
  { [grid |-> g, maxShuffles |-> m] : g \in E_SeedInputs(ETYPES), m \in {0, maxShuffles} }
  \cup { [grid |-> g, maxShuffles |-> E_START_SHUFFLES] : g \in E_SeedGrids }

PEnsurePlayableAreaE ==
  PApply("E", "ensurePlayableArea",
         E_ensurePlayableAreaRuns(p_grid.grid, E_START_PLAYABLE_CELLS, p_grid.maxShuffles))

\* fillEmpties(grid, idGen): a board, the values randomValue() returns and
\* an id generator that has handed out the ids of the board and maybe more
EMaxSkipped == 1

E_FillInputs(skipped) ==
  UNION { { [grid |-> g, vals |-> v, n |-> (ECOLS * EROWS) + 1 + k] :
              v \in E_FillDraws(E_empties(g)), k \in 0..skipped } :
          g \in E_SettleInputs(ECells) }

PFillEmptiesE ==
  PApply("E", "fillEmpties", E_fillEmpties(p_grid.grid, p_grid.n, p_grid.vals))

\* shuffleGrid(grid): a board and the j drawn for each index i of the loop;
\* every outcome 0 <= j <= i for boards of up to EMaxShuffled tiles, the
\* families of E_ShuffleDraws for larger ones
EMaxShuffled == 4

E_AllDraws(len) ==
  { js \in [1..len -> 0..len] : \A i \in 1..len : js[i] <= i /\ (i = len => js[i] = i) }

E_ShuffleInputs(maxShuffled) ==
  UNION { { [grid |-> g, js |-> js] :
              js \in IF Len(E_occupied(g)) <= maxShuffled
                     THEN E_AllDraws(Len(E_occupied(g)))
                     ELSE E_ShuffleDraws(Len(E_occupied(g))) } :
          g \in E_SettleInputs(ECells) }

PShuffleGridE == PApply("E", "shuffleGrid", E_shuffleGrid(p_grid.grid, p_grid.js))

\* the board of the shipped page, for detonateBomb
E_COLS == 7
E_ROWS == 7

E_FullCells == (0..(E_COLS - 1)) \X (0..(E_ROWS - 1))

\* the bombs of an input board: one, any two, or three in a line
E_BlastBombs(cells) ==
  { {a} : a \in cells } \cup
  { {a, b} : a \in cells, b \in cells } \cup
  { B \in { {a, <<a[1] + d[1], a[2] + d[2]>>, <<a[1] + 2 * d[1], a[2] + 2 * d[2]>>} :
              a \in cells, d \in {<<2, 0>>, <<0, 2>>, <<1, 1>>} } :
      B \subseteq cells }

\* the empty cells of an input board: none, or every third diagonal
E_BlastHoles(cells) == { {}, {c \in cells : (c[1] + c[2]) % 3 = 0} }

E_BlastInputs(types) ==
  { [y \in 0..(E_ROWS - 1) |-> [x \in 0..(E_COLS - 1) |->
       IF <<x, y>> \in bombs THEN E_newTile(y * E_COLS + x + 1, types + 1, TRUE)
       ELSE IF <<x, y>> \in holes THEN ENull
       ELSE E_newTile(y * E_COLS + x + 1, ((x + 2 * y) % types) + 1, FALSE)]] :
    bombs \in E_BlastBombs(E_FullCells), holes \in E_BlastHoles(E_FullCells) }

E_bombCells(grid) ==
  { c \in E_FullCells : grid[c[2]][c[1]] # ENull /\ grid[c[2]][c[1]].bomb }

\* detonateBomb(cx, cy) for every bomb of the board, up to the board handed on
PDetonateE ==
  PApply("E", "detonateBomb",
         [c \in E_bombCells(p_grid) |->
            LET r == E_detonate(p_grid, c[1], c[2])
            IN [removeKeys |-> r.removeKeys, removedCount |-> r.removedCount,
                shifted |-> r.shifted, next |-> E_removeCells(p_grid, r.removeKeys)]])

(***************************************************************************)
(* Specifications: each game runs on its own page                          *)
(***************************************************************************)
(***************************************************************************)
(* NumSprint v2 (src/unnamed/part_000, the script that starts at line 483) *)
(* The hint timestamps, the sounds and the toast only change what is       *)
(* drawn and are left out.                                                 *)
(***************************************************************************)
NCOUNT == 3          \* cells of a level (COUNT = GRID * GRID in the source)
NMaxLevel == 2       \* the last level a game may reach
NTimeLimit == 3      \* TIME_LIMIT_MS, in clock units
NTimeBonus == 1      \* TIME_BONUS_MS, in clock units
NTimePenalty == 2    \* TIME_PENALTY_MS, in clock units
NRerollBonus == 2    \* REROLL_BONUS_MS, in clock units
NMaxScore == 30      \* scores above are not explored
NMaxTimers == 2      \* reroll and level-up timeouts pending at once
NMaxMarks == 1       \* FEEDBACK_MS timeouts pending at once
NMaxResets == 1      \* presses of Reset

N_LEVEL_SIZE == NCOUNT

N_HIT_SCORE == 10

N_MISS_SCORE == 6

N_clamp(v, a, b) == IF v < a THEN a ELSE IF v > b THEN b ELSE v

N_levelStart(level) == (level - 1) * N_LEVEL_SIZE + 1

N_levelEnd(level) == level * N_LEVEL_SIZE

\* shuffle: every order of the numbers of a level
N_shuffles(level) ==
  { f \in [0..(NCOUNT - 1) -> N_levelStart(level)..N_levelEnd(level)] :
      \A i, j \in 0..(NCOUNT - 1) : i # j => f[i] # f[j] }

\* the id of a cell is `${level}-${i}-${n}`
N_id(c) == <<c.lv, c.i, c.value>>

N_buildLevelCells(level) ==
  { [k \in 1..NCOUNT |-> [lv |-> level, i |-> k - 1, value |-> nums[k - 1],
                          hit |-> FALSE, state |-> ""]] :
      nums \in N_shuffles(level) }

N_Ev(op, a) == [op |-> op, a |-> a]

NInit ==
  /\ n_cells \in N_buildLevelCells(1)
  /\ n_level = 1
  /\ n_target = N_levelStart(1)
  /\ n_locked = FALSE
  /\ n_score = 0
  /\ n_gameOver = FALSE
  /\ n_timeLeft = NTimeLimit
  /\ n_rerolling = FALSE
  /\ n_timers = << >>
  /\ n_marks = << >>
  /\ n_resets = 0
  /\ n_ev = N_Ev("init", 0)

\* reset: no pending timeout is cleared
NReset ==
  /\ n_resets < NMaxResets
  /\ n_resets' = n_resets + 1
  /\ n_locked' = FALSE
  /\ n_level' = 1
  /\ n_target' = N_levelStart(1)
  /\ n_cells' \in N_buildLevelCells(1)
  /\ n_rerolling' = FALSE
  /\ n_score' = 0
  /\ n_gameOver' = FALSE
  /\ n_timeLeft' = NTimeLimit
  /\ n_ev' = N_Ev("reset", 0)
  /\ UNCHANGED <<n_timers, n_marks>>

\* the requestAnimationFrame tick of the time effect, one clock unit later
NTick ==
  /\ ~n_gameOver
  /\ IF n_timeLeft - 1 <= 0
       THEN /\ n_gameOver' = TRUE
            /\ n_locked' = TRUE
            /\ n_timeLeft' = 0
       ELSE /\ n_timeLeft' = n_timeLeft - 1
            /\ UNCHANGED <<n_gameOver, n_locked>>
  /\ n_ev' = N_Ev("tick", 0)
  /\ UNCHANGED <<n_cells, n_level, n_target, n_score, n_rerolling, n_timers,
                 n_marks, n_resets>>

\* requestReroll from the Reroll button (disabled when locked, gameOver or
\* rerolling) or the R key (ignored in the same cases)
NRequestReroll ==
  /\ ~n_gameOver
  /\ ~(n_rerolling \/ n_locked)
  /\ Len(n_timers) < NMaxTimers
  /\ n_rerolling' = TRUE
  /\ n_locked' = TRUE
  /\ n_timers' = Append(n_timers, [kind |-> "reroll", level |-> n_level])
  /\ n_ev' = N_Ev("reroll", 0)
  /\ UNCHANGED <<n_cells, n_level, n_target, n_score, n_gameOver, n_timeLeft,
                 n_marks, n_resets>>

\* timeouts of REROLL_DELAY_MS (140) and of the level-up (180) fire in the
\* order they were set, except that a reroll may overtake level-ups set
\* less than 40 ms before it
N_mayFire(k) ==
  /\ k \in 1..Len(n_timers)
  /\ \/ k = 1
     \/ /\ n_timers[k].kind = "reroll"
        /\ \A j \in 1..(k - 1) : n_timers[j].kind = "levelup"

N_without(q, k) == [j \in 1..(Len(q) - 1) |-> IF j < k THEN q[j] ELSE q[j + 1]]

\* the timeout set by requestReroll
NRerollTimeout ==
  \E k \in 1..Len(n_timers) :
    /\ N_mayFire(k)
    /\ n_timers[k].kind = "reroll"
    /\ n_cells' \in N_buildLevelCells(n_timers[k].level)
    /\ n_rerolling' = FALSE
    /\ n_locked' = FALSE
    /\ n_timeLeft' = N_clamp(n_timeLeft + NRerollBonus, 0, NTimeLimit)
    /\ n_timers' = N_without(n_timers, k)
    /\ n_ev' = N_Ev("rerolled", n_timers[k].level)
    /\ UNCHANGED <<n_level, n_target, n_score, n_gameOver, n_marks, n_resets>>

\* the timeout set by handleHit on the last number of a level
NLevelUpTimeout ==
  /\ N_mayFire(1)
  /\ n_timers[1].kind = "levelup"
  /\ LET nl == n_timers[1].level + 1 IN
       /\ n_level' = nl
       /\ n_target' = N_levelStart(nl)
       /\ n_cells' \in N_buildLevelCells(nl)
       /\ n_ev' = N_Ev("levelup", nl)
  /\ n_locked' = FALSE
  /\ n_timeLeft' = N_clamp(n_timeLeft + NTimeBonus, 0, NTimeLimit)
  /\ n_timers' = Tail(n_timers)
  /\ UNCHANGED <<n_score, n_gameOver, n_rerolling, n_marks, n_resets>>

N_setState(cells, id, state) ==
  [k \in 1..Len(cells) |->
     IF N_id(cells[k]) = id THEN [cells[k] EXCEPT !.state = state] ELSE cells[k]]

N_setHit(cells, id) ==
  [k \in 1..Len(cells) |->
     IF N_id(cells[k]) = id THEN [cells[k] EXCEPT !.hit = TRUE] ELSE cells[k]]

\* handleHit on the cell drawn at position k
NHandleHit(k) ==
  /\ k \in 1..Len(n_cells)
  /\ ~(n_locked \/ n_gameOver \/ n_rerolling)
  /\ Len(n_marks) < NMaxMarks
  /\ LET cell == n_cells[k] IN
       IF cell.value = n_target
         THEN /\ n_score + N_HIT_SCORE <= NMaxScore
              /\ n_cells' = N_setHit(N_setState(n_cells, N_id(cell), "good"), N_id(cell))
              /\ n_score' = n_score + N_HIT_SCORE
              /\ n_marks' = Append(n_marks, N_id(cell))
              /\ IF n_target + 1 > N_levelEnd(n_level)
                   THEN /\ n_level + 1 <= NMaxLevel
                        /\ Len(n_timers) < NMaxTimers
                        /\ n_locked' = TRUE
                        /\ n_timers' = Append(n_timers, [kind |-> "levelup", level |-> n_level])
                        /\ n_ev' = N_Ev("last", cell.value)
                        /\ UNCHANGED <<n_target, n_timeLeft>>
                   ELSE /\ n_target' = n_target + 1
                        /\ n_timeLeft' = N_clamp(n_timeLeft + NTimeBonus, 0, NTimeLimit)
                        /\ n_ev' = N_Ev("good", cell.value)
                        /\ UNCHANGED <<n_locked, n_timers>>
         ELSE /\ n_cells' = N_setState(n_cells, N_id(cell), "bad")
              /\ n_score' = (IF n_score - N_MISS_SCORE < 0 THEN 0 ELSE n_score - N_MISS_SCORE)
              /\ n_timeLeft' = N_clamp(n_timeLeft - NTimePenalty, 0, NTimeLimit)
              /\ n_marks' = Append(n_marks, N_id(cell))
              /\ n_ev' = N_Ev("bad", cell.value)
              /\ UNCHANGED <<n_target, n_locked, n_timers>>
  /\ UNCHANGED <<n_level, n_gameOver, n_rerolling, n_resets>>

\* the timeout of markCellTemp
NMarkTimeout ==
  /\ n_marks # << >>
  /\ n_cells' = N_setState(n_cells, n_marks[1], "")
  /\ n_marks' = Tail(n_marks)
  /\ n_ev' = N_Ev("unmark", 0)
  /\ UNCHANGED <<n_level, n_target, n_locked, n_score, n_gameOver, n_timeLeft,
                 n_rerolling, n_timers, n_resets>>

\* the positions the auto drift may swap
N_eligible ==
  { k \in 1..Len(n_cells) :
      /\ ~n_cells[k].hit
      /\ n_cells[k].value # n_target
      /\ n_cells[k].value # n_target + 1 }

\* the auto drift interval, once AUTO_DRIFT_DELAY_MS passed without progress
NDrift ==
  /\ ~n_gameOver
  /\ ~(n_locked \/ n_rerolling)
  /\ Cardinality(N_eligible) >= 2
  /\ \E a \in N_eligible : \E b \in N_eligible \ {a} :
       n_cells' = [n_cells EXCEPT ![a] = n_cells[b], ![b] = n_cells[a]]
  /\ n_ev' = N_Ev("drift", 0)
  /\ UNCHANGED <<n_level, n_target, n_locked, n_score, n_gameOver, n_timeLeft,
                 n_rerolling, n_timers, n_marks, n_resets>>

\* the state of a page nobody touches: that of its first render
F_idleGrid == CHOOSE g \in F_SeedGrids(1) : TRUE

F_idleLine == CHOOSE l \in F_NextLines(FALSE) : TRUE

E_idleGrid == CHOOSE g \in E_InitGrids : TRUE

N_idleCells == CHOOSE c \in N_buildLevelCells(1) : TRUE

FIdle ==
  /\ f_grid = F_idleGrid
  /\ f_nextLine = F_idleLine
  /\ FInit

EIdle == e_grid = E_idleGrid /\ EInit

PIdle == PInit("F", {F_emptyGrid})

NIdle == n_cells = N_idleCells /\ NInit

FAlone == UNCHANGED <<evars, pvars, nvars>>
EAlone == UNCHANGED <<fvars, pvars, nvars>>
PAlone == UNCHANGED <<fvars, evars, nvars>>
NAlone == UNCHANGED <<fvars, evars, pvars>>

\* the fragments page
NextF ==
  \/ FStartGame /\ FAlone
  \/ FReset /\ FAlone
  \/ (\E x \in FXs, y \in FYs : FCellClick(x, y)) /\ FAlone
  \/ FPauseButton /\ FAlone
  \/ FTick /\ FAlone
  \/ FPopTimeout /\ FAlone
  \/ FPadTimeout /\ FAlone

InitF == FInit /\ EIdle /\ PIdle /\ NIdle

SpecF == InitF /\ [][NextF]_vars

\* the fragments page in a game that has reached level 2.  seedGrid draws
\* every kind at random, so the seeded rows can read 0..01; the states below
\* follow START on such a seed, a click on its group of kind 0 (POP and
\* LOCK_PAD timeouts run), and two line pushes, the second one of a row made
\* with allowBombs
F_lateSeed ==
  [y \in FYs |-> [x \in FXs |->
     IF y >= FROWS - FSTART_LINES
     THEN F_newTile(1 + (y - (FROWS - FSTART_LINES)) * FCOLS + x,
                    IF x < FCOLS - 1 THEN 0 ELSE 1, FALSE)
     ELSE Null]]

F_lateGroup == { c \in FCells : c[2] >= FROWS - FSTART_LINES /\ c[1] < FCOLS - 1 }

F_LateBoards(seed) ==
  { F_pushLine(F_pushLine(F_settle(F_removeCells(seed, F_lateGroup)),
                          1 + FSTART_LINES * FCOLS, l1).grid,
               1 + (FSTART_LINES + 1) * FCOLS, l2) :
    l1 \in F_NextLines(FALSE), l2 \in F_NextLines(TRUE) }

FInitLate ==
  /\ \E b \in F_LateBoards(F_lateSeed) : f_grid = b.grid /\ f_idn = b.n
  /\ f_nextLine \in F_NextLines(TRUE)
  /\ f_removed = Cardinality(F_lateGroup)
  /\ f_score = Cardinality(F_lateGroup) * Cardinality(F_lateGroup)
  /\ f_locked = FALSE
  /\ f_gameOver = FALSE
  /\ f_gameStarted = TRUE
  /\ f_acc = 0
  /\ f_popQ = << >>
  /\ f_pads = << >>
  /\ f_resets = 0
  /\ f_ev = F_Ev("push", 0)

InitFLate == FInitLate /\ EIdle /\ PIdle /\ NIdle

NextFLate ==
  \/ FReset /\ FAlone
  \/ (\E x \in FXs, y \in FYs : FCellClick(x, y)) /\ FAlone
  \/ FPauseButton /\ FAlone
  \/ FTick /\ FAlone
  \/ FPopTimeout /\ FAlone
  \/ FPadTimeout /\ FAlone

SpecFLate == InitFLate /\ [][NextFLate]_vars

\* the edgeflow page
NextE ==
  \/ EStartGame /\ EAlone
  \/ EReset /\ EAlone
  \/ ETick /\ EAlone
  \/ (\E x \in EXs, y \in EYs : ECellClick(x, y)) /\ EAlone
  \/ ERemovalTimer /\ EAlone
  \/ EFrame1 /\ EAlone
  \/ EFrame2 /\ EAlone
  \/ EAnimDone /\ EAlone
  \/ EUnlockTimer /\ EAlone

InitE == EInit /\ FIdle /\ PIdle /\ NIdle

SpecE == InitE /\ [][NextE]_vars

\* groupAt of either game on its input boards
InitGroup ==
  /\ PInit("F", F_GroupInputs(FTYPES)) \/ PInit("E", E_GroupInputs(EProbeKinds))
  /\ FIdle
  /\ EIdle
  /\ NIdle

NextGroup ==
  \/ PGroupAtF /\ PAlone
  \/ PGroupAtE /\ PAlone

SpecGroup == InitGroup /\ [][NextGroup]_vars

\* the compaction of either game, the two passes of Policy A each on its
\* own, and computeGravity, on their input boards
InitSettle ==
  /\ PInit("F", F_SettleInputs(FCells)) \/ PInit("E", E_SettleInputs(ECells))
  /\ FIdle
  /\ EIdle
  /\ NIdle

NextSettle ==
  \/ PSettleF /\ PAlone
  \/ PApplyGravityF /\ PAlone
  \/ PCompressColsF /\ PAlone
  \/ PGravityE /\ PAlone
  \/ PComputeGravityE /\ PAlone

SpecSettle == InitSettle /\ [][NextSettle]_vars

\* the continuations of resolveAfterRemoval waiting at pc
E_awaiting(pc) == { t \in e_tasks : t.pc = pc }

\* every callback the edgeflow page has scheduled runs in the end: the
\* timeouts by weak fairness of their actions; an awaited frame leaves
\* e_tasks only by running, so "runs in the end" is "is not awaited forever"
E_timersFire ==
  /\ WF_vars(ERemovalTimer /\ EAlone)
  /\ WF_vars(EUnlockTimer /\ EAlone)
  /\ []<>(E_awaiting("frame1") = {})
  /\ []<>(E_awaiting("frame2") = {})

\* the edgeflow page when every timer and frame fires but the animations of
\* a shift need not report their end (anim.finished may stay pending)
SpecEAnimSilent == InitE /\ [][NextE]_vars /\ E_timersFire

\* either page, open on its own
InitLive ==
  \/ FInit /\ EIdle /\ PInit("F", {F_emptyGrid}) /\ NIdle
  \/ EInit /\ FIdle /\ PInit("E", {F_emptyGrid}) /\ NIdle

\* one game on the open page, from START on; RESET, which sets locked to
\* false by itself, is not pressed
NextLive ==
  \/ p_game = "F" /\ FStartGame /\ FAlone
  \/ p_game = "F" /\ (\E x \in FXs, y \in FYs : FCellClick(x, y)) /\ FAlone
  \/ p_game = "F" /\ FPauseButton /\ FAlone
  \/ p_game = "F" /\ FTick /\ FAlone
  \/ p_game = "F" /\ FPopTimeout /\ FAlone
  \/ p_game = "F" /\ FPadTimeout /\ FAlone
  \/ p_game = "E" /\ EStartGame /\ EAlone
  \/ p_game = "E" /\ ETick /\ EAlone
  \/ p_game = "E" /\ (\E x \in EXs, y \in EYs : ECellClick(x, y)) /\ EAlone
  \/ p_game = "E" /\ ERemovalTimer /\ EAlone
  \/ p_game = "E" /\ EFrame1 /\ EAlone
  \/ p_game = "E" /\ EFrame2 /\ EAlone
  \/ p_game = "E" /\ EAnimDone /\ EAlone
  \/ p_game = "E" /\ EUnlockTimer /\ EAlone

\* every scheduled timeout, animation frame and animation end fires
SpecLive ==
  /\ InitLive
  /\ [][NextLive]_vars
  /\ WF_vars(FPopTimeout /\ FAlone)
  /\ WF_vars(FPadTimeout /\ FAlone)
  /\ E_timersFire
  /\ []<>(E_awaiting("anim") = {})

\* hasAvailableMoves on its input boards
InitMoves == PInit("E", E_MoveInputs(ETYPES)) /\ FIdle /\ EIdle /\ NIdle

NextMoves == PHasAvailableMovesE /\ PAlone

SpecMoves == InitMoves /\ [][NextMoves]_vars

\* ensurePlayableArea on its inputs
InitArea == PInit("E", E_AreaInputs(EMaxShuffles)) /\ FIdle /\ EIdle /\ NIdle

NextArea == PEnsurePlayableAreaE /\ PAlone

SpecArea == InitArea /\ [][NextArea]_vars

\* fillEmpties on its inputs
InitFill == PInit("E", E_FillInputs(EMaxSkipped)) /\ FIdle /\ EIdle /\ NIdle

NextFill == PFillEmptiesE /\ PAlone

SpecFill == InitFill /\ [][NextFill]_vars

\* shuffleGrid on its inputs
InitShuffle == PInit("E", E_ShuffleInputs(EMaxShuffled)) /\ FIdle /\ EIdle /\ NIdle

NextShuffle == PShuffleGridE /\ PAlone

SpecShuffle == InitShuffle /\ [][NextShuffle]_vars

\* ensurePlayable on its input boards
InitEnsure == PInit("E", E_EnsureInputs(EMaxShuffles)) /\ FIdle /\ EIdle /\ NIdle

NextEnsure == PEnsurePlayableE /\ PAlone

SpecEnsure == InitEnsure /\ [][NextEnsure]_vars

\* detonateBomb on its input boards
InitBlast == PInit("E", E_BlastInputs(ETYPES)) /\ FIdle /\ EIdle /\ NIdle

NextBlast == PDetonateE /\ PAlone

SpecBlast == InitBlast /\ [][NextBlast]_vars

(***************************************************************************)
(* Properties.  The helpers below say what a group and a playable board    *)
(* are without following the code's traversal.                             *)
(***************************************************************************)
Adjacent(c, d) ==
  \/ c[1] = d[1] /\ (c[2] = d[2] + 1 \/ d[2] = c[2] + 1)
  \/ c[2] = d[2] /\ (c[1] = d[1] + 1 \/ d[1] = c[1] + 1)

RECURSIVE Reach(_, _)
\* the cells of Adm joined to S by a path of adjacent cells of Adm
Reach(S, Adm) ==
  LET more == S \cup { c \in Adm : \E d \in S : Adjacent(c, d) }
  IN IF more = S THEN S ELSE Reach(more, Adm)

\* the ordinary cells of the kind of cell c
E_sameKind(grid, c) ==
  { d \in ECells : /\ grid[d[2]][d[1]] # ENull
                   /\ ~grid[d[2]][d[1]].bomb
                   /\ grid[d[2]][d[1]].value = grid[c[2]][c[1]].value }

E_component(grid, c) == Reach({c}, E_sameKind(grid, c))

\* some click would be accepted: a bomb, or an ordinary group of E_MIN_GROUP
E_playable(grid) ==
  \E c \in ECells :
    /\ grid[c[2]][c[1]] # ENull
    /\ \/ grid[c[2]][c[1]].bomb
       \/ Cardinality(E_component(grid, c)) >= E_MIN_GROUP

C2_OnlyCurrentTokenActs ==
  e_ev.op \in {"holes", "shift", "animate", "final", "unlock"} => e_ev.rid = e_rid

\* a continuation of resolution A has just found its token stale while the newer
\* resolution B is in flight
C2_Witness ==
  /\ e_ev.op = "stale"
  /\ e_ev.rid < e_rid
  /\ \E t \in e_tasks : t.rid = e_rid

\* an accepted click of the current game still waits for its POP or pad timeout
F_resolving ==
  \/ \E i \in 1..Len(f_popQ) : ~f_popQ[i].stale
  \/ \E i \in 1..Len(f_pads) : ~f_pads[i]

F_removeIds(grid, ids) ==
  [y \in FYs |-> [x \in FXs |->
     IF grid[y][x] # Null /\ grid[y][x].id \in ids THEN Null ELSE grid[y][x]]]

\* C3 as stated: while a click of fragments is being resolved no line is pushed
\* and no second click is accepted, and the board its timeout commits is the
\* settle of the current board without the removed tiles.
C3_SingleWriterWhileResolving ==
  [][F_resolving =>
       /\ ~(f_ev'.op = "push" /\ f_idn' # f_idn)
       /\ Len(f_popQ') <= Len(f_popQ)
       /\ (f_popQ # << >> /\ ~Head(f_popQ).stale /\ f_popQ' = Tail(f_popQ))
            => f_grid' = F_settle(F_removeIds(f_grid, Head(f_popQ).removing))]_vars

\* C4 as stated: once gameOver is set, nothing but a reset changes the board or
\* the score or the gravity direction or unlocks input, in either game.
C4_GameOverTerminal ==
  [][/\ (e_gameOver /\ e_ev'.op # "reset")
          => (e_grid' = e_grid /\ e_score' = e_score /\ e_gravity' = e_gravity
                /\ e_locked')
     /\ (f_gameOver /\ f_ev'.op # "reset")
          => (f_grid' = f_grid /\ f_score' = f_score /\ f_locked')]_vars

\* the ordinary cells of the kind of cell c (fragments)
F_sameKind(grid, c) ==
  { d \in FCells : /\ grid[d[2]][d[1]] # Null
                   /\ ~grid[d[2]][d[1]].bomb
                   /\ grid[d[2]][d[1]].t = grid[c[2]][c[1]].t }

F_component(grid, c) == Reach({c}, F_sameKind(grid, c))

\* the tile of cell c of the input board, and the game's empty cell
PTile(c) == p_grid[c[2]][c[1]]
PNull == IF p_game = "F" THEN Null ELSE ENull
PCells == IF p_game = "F" THEN FCells ELSE ECells
PGroupCells(g) == { <<g[i].x, g[i].y>> : i \in 1..Len(g) }

\* C5 as stated: from an occupied ordinary seed, groupAt returns the maximal
\* 4-connected set of ordinary cells of the seed's kind, each cell once, and the
\* same set from every member, in both games.
C5_GroupIsOrdinaryComponent ==
  p_fn = "groupAt" =>
    \A c \in PCells :
      (PTile(c) # PNull /\ ~PTile(c).bomb) =>
        /\ PGroupCells(p_out[c]) =
             (IF p_game = "F" THEN F_component(p_grid, c) ELSE E_component(p_grid, c))
        /\ Len(p_out[c]) = Cardinality(PGroupCells(p_out[c]))
        /\ \A m \in PGroupCells(p_out[c]) : PGroupCells(p_out[m]) = PGroupCells(p_out[c])

\* C6 as stated: groupAt returns the empty list for an empty or a bomb seed, and
\* no group it returns holds a bomb, in both games.
C6_BombsNeverGrouped ==
  p_fn = "groupAt" =>
    \A c \in PCells :
      /\ (PTile(c) = PNull \/ PTile(c).bomb) => p_out[c] = << >>
      /\ \A m \in PGroupCells(p_out[c]) : ~PTile(m).bomb

\* the cells of a board that hold a tile with id i
F_cellsOfId(grid, i) == { c \in FCells : grid[c[2]][c[1]] # Null /\ grid[c[2]][c[1]].id = i }
E_cellsOfId(grid, i) == { c \in ECells : grid[c[2]][c[1]] # ENull /\ grid[c[2]][c[1]].id = i }

\* C7 as stated: the tiles of the committed board have pairwise distinct ids, in
\* both games.
C7_IdsPairwiseDistinct ==
  /\ \A i \in 1..FMaxId : Cardinality(F_cellsOfId(f_grid, i)) <= 1
  /\ \A i \in 1..EMaxId : Cardinality(E_cellsOfId(e_grid, i)) <= 1

\* the tiles of a board, each with the number of cells that hold it
F_tileCount(grid, t) == Cardinality({ c \in FCells : grid[c[2]][c[1]] = t })
E_tileCount(grid, t) == Cardinality({ c \in ECells : grid[c[2]][c[1]] = t })
F_tiles(grid) == { grid[c[2]][c[1]] : c \in FCells } \ {Null}
E_tiles(grid) == { grid[c[2]][c[1]] : c \in ECells } \ {ENull}

F_sameTiles(g, h) ==
  \A t \in F_tiles(g) \cup F_tiles(h) : F_tileCount(g, t) = F_tileCount(h, t)

E_sameTiles(g, h) ==
  \A t \in E_tiles(g) \cup E_tiles(h) : E_tileCount(g, t) = E_tileCount(h, t)

\* C8: compaction neither creates nor destroys a tile: under Policy A (settle) and
\* under Policy B (applyGravity in each of the four directions) the board holds
\* the same tiles (id, kind, bomb flag), each as often, before and after.
C8_CompactionConservesTiles ==
  /\ p_fn = "settle" => F_sameTiles(p_grid, p_out)
  /\ (p_game = "E" /\ p_fn = "applyGravity") =>
       \A d \in {"UP", "DOWN", "LEFT", "RIGHT"} : E_sameTiles(p_grid, p_out[d].grid)

\* Policy A has moved the tiles of a board with holes
C8_Witness ==
  /\ p_fn = "settle"
  /\ p_out # p_grid
  /\ Cardinality(F_tiles(p_grid)) >= 3

\* no empty cell below a tile (fragments)
F_noGapBelow(grid) ==
  \A c \in FCells :
    (grid[c[2]][c[1]] # Null /\ c[2] < FROWS - 1) => grid[c[2] + 1][c[1]] # Null

\* no empty column between a column with tiles and the center
F_columnsPacked(grid) ==
  \A x \in FXs :
    ~F_isColEmpty(grid, x) =>
      \A z \in FXs :
        ((x < z /\ z <= (FCOLS \div 2) - 1) \/ (FCOLS \div 2 <= z /\ z < x))
          => ~F_isColEmpty(grid, z)

\* the neighbour of cell c in direction dir
E_toward(c, dir) ==
  CASE dir = "UP" -> <<c[1], c[2] - 1>>
    [] dir = "DOWN" -> <<c[1], c[2] + 1>>
    [] dir = "LEFT" -> <<c[1] - 1, c[2]>>
    [] dir = "RIGHT" -> <<c[1] + 1, c[2]>>

\* no empty cell beyond a tile in direction dir (edgeflow)
E_noGapBeyond(grid, dir) ==
  \A c \in ECells :
    (grid[c[2]][c[1]] # ENull /\ E_toward(c, dir) \in ECells)
      => grid[E_toward(c, dir)[2]][E_toward(c, dir)[1]] # ENull

\* C9 as stated: on a board without an empty cell below (beyond) any tile in the
\* gravity direction, Policy A's settle and Policy B's applyGravity return the
\* board unchanged, and Policy B reports moved = false.
C9_GapFreeBoardIsFixed ==
  /\ (p_fn = "settle" /\ F_noGapBelow(p_grid)) => p_out = p_grid
  /\ (p_game = "E" /\ p_fn = "applyGravity") =>
       \A d \in {"UP", "DOWN", "LEFT", "RIGHT"} :
         E_noGapBeyond(p_grid, d) => p_out[d] = [grid |-> p_grid, moved |-> FALSE]

\* C9 amended: Policy A's settle returns the board unchanged when no tile has an
\* empty cell below it and no empty column lies between a column with tiles and
\* the center; Policy B's applyGravity returns the board unchanged with
\* moved = false when no tile has an empty cell beyond it in the direction.
C9_SettledBoardIsFixed ==
  /\ (p_fn = "settle" /\ F_noGapBelow(p_grid) /\ F_columnsPacked(p_grid)) => p_out = p_grid
  /\ (p_game = "E" /\ p_fn = "applyGravity") =>
       \A d \in {"UP", "DOWN", "LEFT", "RIGHT"} :
         E_noGapBeyond(p_grid, d) => p_out[d] = [grid |-> p_grid, moved |-> FALSE]

\* applyGravity was applied to a board settled towards the bottom that is
\* neither empty nor full
C9_Witness ==
  /\ p_game = "E" /\ p_fn = "applyGravity"
  /\ E_noGapBeyond(p_grid, "DOWN")
  /\ ~p_out["DOWN"].moved
  /\ p_out["UP"].moved
  /\ Cardinality(E_tiles(p_grid)) >= 3

\* C10: pushLine on a board with a tile in row 0 reports gameOver, returns the
\* board as it is and leaves the id counter alone; the tick that finds the line
\* due on such a board sets gameOver and locked and changes neither the board,
\* nor the id counter, nor the next line.
C10_OverflowEndsGame ==
  [][/\ (\E x \in FXs : f_grid[0][x] # Null)
          => F_pushLine(f_grid, f_idn, f_nextLine)
               = [grid |-> f_grid, gameOver |-> TRUE, n |-> f_idn]
     /\ ( /\ \E x \in FXs : f_grid[0][x] # Null
          /\ f_ev'.op \in {"push", "overflow"}
          /\ <<f_grid, f_idn, f_gameOver, f_acc>>' # <<f_grid, f_idn, f_gameOver, f_acc>> )
          => /\ f_ev'.op = "overflow"
             /\ f_gameOver' /\ f_locked'
             /\ f_grid' = f_grid /\ f_idn' = f_idn /\ f_nextLine' = f_nextLine]_vars

\* the tick has just found the top row occupied
C10_Witness ==
  /\ f_ev.op = "overflow"
  /\ f_gameOver /\ f_locked
  /\ \E x \in FXs : f_grid[0][x] # Null

(***************************************************************************)
(* Bomb blasts                                                             *)
(***************************************************************************)
Manhattan(c, d) == E_abs(c[1] - d[1]) + E_abs(c[2] - d[2])

\* the occupied cells of the input board within BOMB_RADIUS of c
P_blastOf(c) ==
  { d \in E_FullCells : p_grid[d[2]][d[1]] # ENull /\ Manhattan(c, d) <= E_BOMB_RADIUS }

P_bombs == E_bombCells(p_grid)

\* the bombs reached from c through blasts
RECURSIVE P_chainFrom(_)
P_chainFrom(S) ==
  LET more == S \cup { b \in P_bombs : \E d \in S : Manhattan(d, b) <= E_BOMB_RADIUS }
  IN IF more = S THEN S ELSE P_chainFrom(more)

P_chain(c) == P_chainFrom({c})

P_withoutCells(S) ==
  [y \in DOMAIN p_grid |-> [x \in DOMAIN p_grid[y] |->
     IF <<x, y>> \in S THEN ENull ELSE p_grid[y][x]]]

P_center == <<3, 3>>

P_centerDiamond ==
  { <<3, 1>>, <<2, 2>>, <<3, 2>>, <<4, 2>>, <<1, 3>>, <<2, 3>>, <<3, 3>>, <<4, 3>>,
    <<5, 3>>, <<2, 4>>, <<3, 4>>, <<4, 4>>, <<3, 5>> }

P_fullyOccupied == \A c \in E_FullCells : p_grid[c[2]][c[1]] # ENull

\* C11 (edgeflow): detonateBomb at a bomb whose blast holds no other bomb
\* removes exactly the occupied in-bounds cells at Manhattan distance at most
\* BOMB_RADIUS from it and leaves every other cell as it was; on a fully
\* occupied board the bomb at (3,3) removes exactly the 13 cells of its
\* diamond.
C11_LoneBombRemovesItsDiamond ==
  p_fn = "detonateBomb" =>
    \A c \in DOMAIN p_out :
      P_blastOf(c) \cap P_bombs = {c} =>
        /\ p_out[c].removeKeys = P_blastOf(c)
        /\ p_out[c].next = P_withoutCells(P_blastOf(c))
        /\ (c = P_center /\ P_fullyOccupied) =>
             /\ p_out[c].removeKeys = P_centerDiamond
             /\ p_out[c].removedCount = 13

C11_Witness ==
  /\ p_fn = "detonateBomb"
  /\ P_fullyOccupied
  /\ P_bombs = {P_center}
  /\ p_out[P_center].removeKeys = P_centerDiamond
  /\ \E c \in E_FullCells : p_out[P_center].next[c[2]][c[1]] # ENull

P_noRepeat(seq) == \A i, j \in 1..Len(seq) : seq[i] = seq[j] => i = j

\* C12 (edgeflow): detonateBomb removes exactly the union of the diamonds of
\* the bombs reached from the clicked bomb through blasts, takes every such
\* bomb off the queue once, counts every removed cell once, and removes the
\* same cells whichever of two bombs within each other's blast is clicked.
C12_ChainRemovesUnionOnce ==
  p_fn = "detonateBomb" =>
    \A c \in DOMAIN p_out :
      LET union == UNION { P_blastOf(b) : b \in P_chain(c) }
      IN /\ p_out[c].removeKeys = union
         /\ p_out[c].next = P_withoutCells(union)
         /\ p_out[c].removedCount = Cardinality(union)
         /\ P_noRepeat(p_out[c].shifted)
         /\ { p_out[c].shifted[i] : i \in 1..Len(p_out[c].shifted) } = P_chain(c)
         /\ \A b \in DOMAIN p_out :
              Manhattan(b, c) <= E_BOMB_RADIUS =>
                /\ p_out[b].removeKeys = p_out[c].removeKeys
                /\ p_out[b].removedCount = p_out[c].removedCount

\* three bombs in a line, the last one out of the first one's blast, and two
\* blasts that overlap
C12_Witness ==
  /\ p_fn = "detonateBomb"
  /\ \E a, b, c \in DOMAIN p_out :
       /\ Manhattan(a, b) = E_BOMB_RADIUS /\ Manhattan(b, c) = E_BOMB_RADIUS
       /\ Manhattan(a, c) > E_BOMB_RADIUS
       /\ P_blastOf(a) \cap P_blastOf(b) # {}
       /\ c \in p_out[a].removeKeys
       /\ Len(p_out[a].shifted) = 3
       /\ p_out[a].removedCount <
            Cardinality(P_blastOf(a)) + Cardinality(P_blastOf(b)) + Cardinality(P_blastOf(c))

(***************************************************************************)
(* Rejected clicks                                                         *)
(***************************************************************************)
\* C13 (both games): a click on an empty cell, or on an ordinary cell whose
\* group is smaller than MIN_GROUP, changes neither board, score, lock flag
\* nor resolution token, starts no timer, and signals a miss.
C13_RejectedClickSignalsMiss ==
  [][/\ f_ev'.op \in {"empty", "miss"} =>
          /\ UNCHANGED <<f_grid, f_nextLine, f_score, f_removed, f_locked, f_gameOver,
                         f_popQ, f_pads>>
          /\ f_ev'.op = "miss"
     /\ e_ev'.op \in {"empty", "miss"} =>
          /\ UNCHANGED <<e_grid, e_gravity, e_score, e_locked, e_rid, e_removal,
                         e_tasks, e_unlocks>>
          /\ e_ev'.op = "miss"]_vars

(***************************************************************************)
(* Timers                                                                  *)
(***************************************************************************)
F_tickOps == {"tickHeld", "tick", "push", "overflow"}

\* C14 (fragments): while locked or gameOver is true a tick of the line-push
\* loop pushes no line, commits no board and adds nothing to the time
\* accumulated toward the next push; the accumulated time is kept across the
\* lock, so pushing resumes where it stopped.
C14_PushTimerHeldWhileLocked ==
  [][/\ ((f_locked \/ f_gameOver) /\ f_ev'.op \in F_tickOps) =>
          /\ f_ev'.op = "tickHeld"
          /\ UNCHANGED <<f_grid, f_nextLine, f_idn, f_acc, f_gameOver, f_locked>>
     /\ f_ev'.op \in {"hit", "bomb", "pop", "pad", "pause", "tickHeld"} => f_acc' = f_acc
     /\ (~f_locked /\ ~f_gameOver /\ f_ev'.op \in F_tickOps) => f_ev'.op # "tickHeld"]_vars

\* a tick is held mid-interval, with the top row free for the push to come
C14_Witness ==
  /\ f_ev.op = "tickHeld"
  /\ f_locked /\ ~f_gameOver
  /\ f_acc > 0
  /\ ~F_topRowHasTile(f_grid)

\* a turn of edgeflow is resolving: from the accepted click to the unlock
E_resolving ==
  \/ e_removal # << >>
  \/ \E t \in e_tasks : t.rid = e_rid
  \/ e_rid \in e_unlocks

\* C15 (edgeflow): the countdown is held while a turn is resolving or the game
\* is over: no interval tick decreases timeLeftMs in a state with locked or
\* gameOver true, and the clock does not expire in the middle of a resolution.
C15_ClockHeldWhileResolving ==
  [][/\ (e_locked \/ e_gameOver) => e_timeLeft' >= e_timeLeft
     /\ (e_gameOver' /\ ~e_gameOver) => ~E_resolving]_vars

(***************************************************************************)
(* The playability guarantor                                               *)
(***************************************************************************)
\* C16 (edgeflow): every run of ensurePlayable(grid, maxShuffles) ends, after
\* at most maxShuffles calls of shuffleGrid; it returns the input board with
\* no call when that board has a move; and the board returned has a move or
\* exactly maxShuffles calls were made.
C16_EnsurePlayableBounded ==
  p_fn = "ensurePlayable" =>
    /\ p_out # {}
    /\ \A r \in p_out :
         /\ r.calls <= p_grid.maxShuffles
         /\ E_playable(p_grid.grid) => (r.grid = p_grid.grid /\ r.calls = 0)
         /\ E_playable(r.grid) \/ r.calls = p_grid.maxShuffles

\* a board without a move: one run repairs it with a shuffle to spare, another
\* uses the whole budget and returns a board without a move
C16_Witness ==
  /\ p_fn = "ensurePlayable"
  /\ ~E_playable(p_grid.grid)
  /\ p_grid.maxShuffles > 1
  /\ \E r \in p_out : E_playable(r.grid) /\ r.calls \in 1..(p_grid.maxShuffles - 1)
  /\ \E r \in p_out : ~E_playable(r.grid) /\ r.calls = p_grid.maxShuffles

(***************************************************************************)
(* Tile ids over the lifetime of a page                                    *)
(***************************************************************************)
\* the step is a reset() of the page
F_resetStep ==
  f_ev'.op = "reset" /\ (f_resets' # f_resets \/ f_gameStarted' # f_gameStarted)

E_resetStep == e_ev'.op = "reset" /\ e_rid' # e_rid

\* the ids the step gives to new tiles: a reset seeds from a fresh generator,
\* every other step draws from the generator in place
F_handedOut == IF F_resetStep THEN 1..(f_idn' - 1) ELSE f_idn..(f_idn' - 1)

E_handedOut == IF E_resetStep THEN 1..(e_idn' - 1) ELSE e_idn..(e_idn' - 1)

\* C17 (both games): ids are never reused: no step, a reset included, gives a
\* new tile an id that the page has given to a tile before.
C17_IdsNeverReused ==
  [][/\ F_handedOut \cap (1..(f_idn - 1)) = {}
     /\ E_handedOut \cap (1..(e_idn - 1)) = {}]_vars

(***************************************************************************)
(* Reset and the actions in flight                                         *)
(***************************************************************************)
E_inputOps == {"reset", "hit", "bomb", "miss", "empty", "tick", "expire"}

\* C18 (edgeflow): reset invalidates every action in flight: right after a
\* reset no removal timer is pending and no continuation or unlock timer
\* carries the current token, and as long as that is so (until the next
\* accepted click) the steps of timers and continuations change neither
\* board, gravity, score, time nor lock.
C18_ResetInvalidatesInFlight ==
  [][/\ (e_ev'.op = "reset" /\ e_ev' # e_ev) => ~E_resolving'
     /\ (~E_resolving /\ e_ev'.op \notin E_inputOps) =>
          UNCHANGED <<e_grid, e_gravity, e_score, e_timeLeft, e_locked, e_gameOver>>]_vars

\* a continuation of a click accepted before the reset drops out; no click has
\* been accepted since (the score is still 0)
C18_Witness ==
  /\ e_ev.op = "stale"
  /\ e_gameStarted /\ ~e_gameOver /\ ~e_locked
  /\ e_score = 0
  /\ ~E_resolving

\* C19 (fragments): reset fully replaces the board: no POP_MS timeout of a
\* click accepted before the reset commits its board after the reset, and no
\* LOCK_PAD_MS timeout of such a click changes the lock.
C19_ResetReplacesBoard ==
  [][/\ (f_ev'.op = "pop" /\ f_popQ # << >> /\ f_popQ' = Tail(f_popQ)) =>
          (Head(f_popQ).stale => f_grid' = f_grid)
     /\ (f_ev'.op = "pad" /\ f_pads # << >> /\ f_pads' = Tail(f_pads)) =>
          (Head(f_pads) => f_locked' = f_locked)]_vars

(***************************************************************************)
(* The committed board                                                     *)
(***************************************************************************)
\* C20 (edgeflow): the committed board changes only through a SET_GRID or
\* RESET commit: no cell of it and no value/bomb field of a tile on it changes
\* in the step that accepts a click or in any other step that is not a commit.
C20_BoardChangesOnlyByCommit ==
  [][e_grid' # e_grid => e_ev'.op \in {"reset", "holes", "shift", "final"}]_vars

(***************************************************************************)
(* The order of the commits of a resolution                                *)
(***************************************************************************)
\* the continuation of the resolution with token rid, waiting at pc
E_waiting(rid, pc) == { t \in e_tasks : t.rid = rid /\ t.pc = pc }

\* C21 (edgeflow): a resolution commits the post-removal board first; the
\* compacted board is committed only after that and a frame, and only when
\* applyGravity reports moved; the refilled board is committed after the
\* compacted one and its animation, or straight after the holes frame when
\* nothing moved; the unlock comes after the final commit.
C21_CommitOrder ==
  [][/\ (e_ev'.op = "holes" /\ e_ev' # e_ev) =>
          /\ e_removal # << >>
          /\ e_grid' = e_removal[1].next
          /\ \E t \in e_tasks' : t.rid = e_ev'.rid /\ t.pc = "frame1"
     /\ (e_ev'.op = "shift" /\ e_ev' # e_ev) =>
          \E t \in E_waiting(e_ev'.rid, "frame1") :
            /\ e_grid = t.nextGrid
            /\ E_applyGravity(t.nextGrid, t.gravity).moved
            /\ e_grid' = E_applyGravity(t.nextGrid, t.gravity).grid
     /\ (e_ev'.op = "final" /\ e_ev' # e_ev) =>
          \/ \E t \in E_waiting(e_ev'.rid, "anim") : e_grid = t.shifted
          \/ \E t \in E_waiting(e_ev'.rid, "frame1") :
               /\ e_grid = t.nextGrid
               /\ ~E_applyGravity(t.nextGrid, t.gravity).moved
     /\ (e_ev'.op = "final" /\ e_ev' # e_ev) => e_ev'.rid \in e_unlocks' \ e_unlocks
     /\ (e_ev'.op = "unlock" /\ e_ev' # e_ev) =>
          /\ e_ev'.rid \in e_unlocks
          /\ e_removal = << >>
          /\ \A t \in e_tasks : t.rid # e_ev'.rid]_vars

\* the compacted board has just been committed over the holes board
C21_Witness ==
  /\ e_ev.op = "shift"
  /\ \E t \in E_waiting(e_rid, "frame2") : e_grid = t.shifted /\ t.shifted # t.nextGrid

(***************************************************************************)
(* Progress of a resolution                                                *)
(***************************************************************************)
\* C22 (edgeflow): the wait for the shift animation is bounded: once the
\* compacted board is committed and the animations are started, the
\* resolution goes on to the refill even if no animation ever reports its end.
C22_ShiftWaitBounded ==
  (E_waiting(e_rid, "anim") # {}) ~> (E_waiting(e_rid, "anim") = {})

\* C23 (both games): every accepted click, which sets locked, is eventually
\* followed by a state with locked false or gameOver true, when every
\* scheduled timeout, animation frame and animation end fires.
C23_LockEventuallyReleased ==
  /\ (f_ev.op \in {"hit", "bomb"} /\ f_locked) ~> (~f_locked \/ f_gameOver)
  /\ (e_ev.op \in {"hit", "bomb"} /\ e_locked) ~> (~e_locked \/ e_gameOver)

\* a turn has run from the accepted click to the unlock of its own timer
C23_Witness ==
  \/ p_game = "F" /\ f_ev.op = "pad" /\ ~f_locked /\ ~f_gameOver /\ f_score > 0
  \/ p_game = "E" /\ e_ev.op = "unlock" /\ ~e_locked /\ ~e_gameOver /\ e_score > 0

(***************************************************************************)
(* The flow direction                                                      *)
(***************************************************************************)
P_dirs == {"UP", "DOWN", "LEFT", "RIGHT"}

\* the number of cells between c and the edge the direction points to
P_toEdge(d, c) ==
  IF d = "UP" THEN c[2]
  ELSE IF d = "DOWN" THEN EROWS - 1 - c[2]
  ELSE IF d = "LEFT" THEN c[1]
  ELSE ECOLS - 1 - c[1]

P_emptyCells == { c \in ECells : p_grid[c[2]][c[1]] = ENull }

\* the empty cells that are no farther from the edge of d than from any other
P_voters(d) == { c \in P_emptyCells : \A e \in P_dirs : P_toEdge(d, c) <= P_toEdge(e, c) }

\* C24 (edgeflow): computeGravity gives every empty cell one vote for each
\* direction whose distance to the edge is the cell's minimum; it returns
\* current when no cell is empty, and a direction d other than current only
\* when d has the highest vote total and leads current by at least
\* FLOW_CHANGE_THRESHOLD votes.
C24_GravityVoteWithHysteresis ==
  p_fn = "computeGravity" =>
    /\ \A d \in P_dirs : p_out.votes[d] = Cardinality(P_voters(d))
    /\ \A cur \in P_dirs :
         LET d == p_out.result[cur]
         IN /\ d \in P_dirs
            /\ P_emptyCells = {} => d = cur
            /\ d # cur =>
                 /\ \A e \in P_dirs : Cardinality(P_voters(d)) >= Cardinality(P_voters(e))
                 /\ Cardinality(P_voters(d)) - Cardinality(P_voters(cur))
                      >= E_FLOW_CHANGE_THRESHOLD

\* one board on which the flow turns for one current direction and stays
\* for another that ties for the lead
C24_Witness ==
  /\ p_fn = "computeGravity"
  /\ \E cur \in P_dirs : p_out.result[cur] # cur
  /\ \E cur \in P_dirs :
       /\ p_out.result[cur] = cur
       /\ \E e \in P_dirs \ {cur} : Cardinality(P_voters(e)) = Cardinality(P_voters(cur))
       /\ Cardinality(P_voters(cur)) > 0

(***************************************************************************)
(* Compaction line by line                                                 *)
(***************************************************************************)
\* the lines of the board for direction d: rows for LEFT/RIGHT, columns for
\* UP/DOWN
P_lines(d) == IF d \in {"UP", "DOWN"} THEN EXs ELSE EYs

\* the cells of line k, listed from the end direction d points to
P_lineFromEnd(d, k) ==
  IF d = "UP" THEN [i \in 1..EROWS |-> <<k, i - 1>>]
  ELSE IF d = "DOWN" THEN [i \in 1..EROWS |-> <<k, EROWS - i>>]
  ELSE IF d = "LEFT" THEN [i \in 1..ECOLS |-> <<i - 1, k>>]
  ELSE [i \in 1..ECOLS |-> <<ECOLS - i, k>>]

\* the tiles of the listed cells, in listing order
P_tilesAlong(grid, cells) ==
  LET full == SelectSeq(cells, LAMBDA c : grid[c[2]][c[1]] # ENull)
  IN [i \in 1..Len(full) |-> grid[full[i][2]][full[i][1]]]

\* the listed cells hold tiles up to some position and nothing after it
P_packedAlong(grid, cells) ==
  \A i \in 1..Len(cells) : \A j \in 1..Len(cells) :
    (i < j /\ grid[cells[j][2]][cells[j][1]] # ENull)
      => grid[cells[i][2]][cells[i][1]] # ENull

\* C25 (edgeflow): applyGravity(grid, dir) compacts every row (LEFT/RIGHT) or
\* column (UP/DOWN) toward the end dir points to, keeps the tiles of the line
\* in their order, leaves the gaps on the opposite side, and returns moved
\* exactly when some tile is at another position than before.
C25_LinesCompactTowardEdge ==
  (p_game = "E" /\ p_fn = "applyGravity") =>
    \A d \in P_dirs :
      /\ \A k \in P_lines(d) :
           /\ P_packedAlong(p_out[d].grid, P_lineFromEnd(d, k))
           /\ P_tilesAlong(p_out[d].grid, P_lineFromEnd(d, k))
                = P_tilesAlong(p_grid, P_lineFromEnd(d, k))
      /\ p_out[d].moved <=>
           \E c \in ECells :
             p_grid[c[2]][c[1]] # ENull /\ p_out[d].grid[c[2]][c[1]] # p_grid[c[2]][c[1]]

\* a line with two tiles and a gap toward the bottom edge was compacted
\* downward, while the same board did not move when compacted upward
C25_Witness ==
  /\ p_game = "E" /\ p_fn = "applyGravity"
  /\ p_out["DOWN"].moved
  /\ \E x \in EXs :
       /\ Len(P_tilesAlong(p_grid, P_lineFromEnd("DOWN", x))) = 2
       /\ p_grid[EROWS - 1][x] = ENull
  /\ ~p_out["UP"].moved
  /\ p_out["RIGHT"].moved

(***************************************************************************)
(* Policy A pass by pass                                                   *)
(***************************************************************************)
\* the tiles of column x from the bottom row upwards
P_columnTiles(grid, x) ==
  LET full == SelectSeq([i \in 1..FROWS |-> FROWS - i], LAMBDA y : grid[y][x] # Null)
  IN [i \in 1..Len(full) |-> grid[full[i]][x]]

\* column x as a whole
P_column(grid, x) == [y \in FYs |-> grid[y][x]]

\* C26 (fragments): applyGravity moves the tiles of every column to the
\* bottom-most cells of that column, in their vertical order, with the empty
\* cells on top; no tile changes column.
C26_ColumnsFallInPlace ==
  (p_game = "F" /\ p_fn = "applyGravity") =>
    \A x \in FXs :
      /\ P_columnTiles(p_out, x) = P_columnTiles(p_grid, x)
      /\ \A y \in FYs : p_out[y][x] # Null <=> y >= FROWS - Len(P_columnTiles(p_grid, x))

\* a column with a tile above a gap has fallen, and another column holding
\* two tiles apart from each other keeps their order
C26_Witness ==
  /\ p_game = "F" /\ p_fn = "applyGravity"
  /\ p_out # p_grid
  /\ \E x \in FXs :
       /\ p_grid[0][x] # Null /\ p_grid[FROWS - 1][x] # Null
       /\ \E y \in FYs : p_grid[y][x] = Null
       /\ p_out[FROWS - 2][x] = p_grid[0][x]

\* the columns of the left and of the right half that hold a tile, from left
\* to right
P_leftCols(grid) ==
  SelectSeq([i \in 1..FCOLS |-> i - 1],
            LAMBDA x : x <= (FCOLS \div 2) - 1 /\ \E y \in FYs : grid[y][x] # Null)

P_rightCols(grid) ==
  SelectSeq([i \in 1..FCOLS |-> i - 1],
            LAMBDA x : x >= FCOLS \div 2 /\ \E y \in FYs : grid[y][x] # Null)

\* C27 (fragments): centerOutCompressCols moves whole columns unchanged: the
\* non-empty columns of the left half (index <= centerLeft) end in the
\* contiguous columns ending at centerLeft, those of the right half
\* (index >= centerRight) in the contiguous columns starting at centerRight,
\* each half in its left-to-right order, and the empty columns are at the
\* outer edges.
C27_ColumnsPullToCenter ==
  (p_game = "F" /\ p_fn = "centerOutCompressCols") =>
    LET centerRight == FCOLS \div 2
        centerLeft == centerRight - 1
        L == P_leftCols(p_grid)
        R == P_rightCols(p_grid)
    IN /\ \A i \in 1..Len(L) :
            P_column(p_out, centerLeft - Len(L) + i) = P_column(p_grid, L[i])
       /\ \A i \in 1..Len(R) :
            P_column(p_out, centerRight + i - 1) = P_column(p_grid, R[i])
       /\ \A x \in FXs :
            (x <= centerLeft - Len(L) \/ x >= centerRight + Len(R))
              => \A y \in FYs : p_out[y][x] = Null

\* both halves had an empty column between a column with tiles and the
\* center, and both were pulled in
C27_Witness ==
  /\ p_game = "F" /\ p_fn = "centerOutCompressCols"
  /\ P_leftCols(p_grid) = <<0>>
  /\ P_rightCols(p_grid) = <<FCOLS - 1>>
  /\ P_column(p_out, (FCOLS \div 2) - 1) = P_column(p_grid, 0)
  /\ P_column(p_out, FCOLS \div 2) = P_column(p_grid, FCOLS - 1)
  /\ P_column(p_out, 0) # P_column(p_grid, 0)

(***************************************************************************)
(* Match clicks and bomb creation (edgeflow)                               *)
(***************************************************************************)
\* the board handed to resolveAfterRemoval by the click just accepted
P_handed == e_removal'[1].next

\* clicking cell c of a group K of the committed board: the handed board, the
\* number of tiles removed and whether a bomb is created
P_matchOutcome(c, K) ==
  LET bomb == Cardinality(K) >= E_BOMB_THRESHOLD
      gone == IF bomb THEN K \ {c} ELSE K
  IN /\ \A d \in ECells :
          P_handed[d[2]][d[1]] =
            IF d \in gone THEN ENull
            ELSE IF bomb /\ d = c
            THEN [id |-> e_grid[c[2]][c[1]].id, value |-> ETYPES + 1, bomb |-> TRUE]
            ELSE e_grid[d[2]][d[1]]
     /\ e_score' - e_score =
          (Cardinality(gone) * E_BLOCK_SCORE) + (IF bomb THEN E_BOMB_CREATE_BONUS ELSE 0)
     /\ Cardinality({ d \in ECells : e_grid[d[2]][d[1]] # ENull /\ P_handed[d[2]][d[1]] = ENull })
          = Cardinality(gone)

\* C29 (edgeflow): an accepted match click on a group of BOMB_THRESHOLD or more
\* removes every member but the clicked cell, whose tile stays at its place
\* with its id and becomes a bomb; on a smaller group (MIN_GROUP up to
\* BOMB_THRESHOLD - 1) it removes every member and creates no bomb; the score
\* is raised for exactly the number of tiles removed.
C29_MatchRemovesGroupAndArmsBomb ==
  [][ (e_ev'.op = "hit" /\ e_removal' # << >> /\ e_removal = << >>) =>
        \E c \in ECells :
          /\ e_grid[c[2]][c[1]] # ENull
          /\ ~e_grid[c[2]][c[1]].bomb
          /\ Cardinality(E_component(e_grid, c)) >= E_MIN_GROUP
          /\ P_matchOutcome(c, E_component(e_grid, c))
          /\ e_ev'.a = "armed" <=> Cardinality(E_component(e_grid, c)) >= E_BOMB_THRESHOLD ]_vars

\* a match that armed a bomb is waiting for its removal timer: a bomb stands
\* among the holes of the board handed on
C29_Witness ==
  /\ e_ev.op = "hit"
  /\ e_ev.a = "armed"
  /\ e_removal # << >>
  /\ Len(E_empties(e_removal[1].next)) >= E_BOMB_THRESHOLD - 1
  /\ \E c \in ECells :
       /\ e_removal[1].next[c[2]][c[1]] # ENull
       /\ e_removal[1].next[c[2]][c[1]].bomb

(***************************************************************************)
(* Refill and shuffle (edgeflow)                                           *)
(***************************************************************************)
\* the ids of the tiles of a board
P_ids(grid) == { grid[c[2]][c[1]].id : c \in { d \in ECells : grid[d[2]][d[1]] # ENull } }

\* the cells of a board that hold the pair (v, b)
P_pairCells(grid, v, b) ==
  { c \in ECells : /\ grid[c[2]][c[1]] # ENull
                   /\ grid[c[2]][c[1]].value = v
                   /\ grid[c[2]][c[1]].bomb = b }

\* C28 (edgeflow): fillEmpties returns a board without an empty cell in which
\* every cell occupied before holds the same tile, every cell empty before
\* holds a new tile that is no bomb, has a value in 1..TYPES and an id that
\* no other tile has, and spawnIds is exactly the set of the new tiles' ids.
C28_FillKeepsTilesAndSpawnsFresh ==
  p_fn = "fillEmpties" =>
    LET old == { c \in ECells : p_grid.grid[c[2]][c[1]] # ENull }
        new == ECells \ old
        out == p_out.grid
    IN /\ \A c \in ECells : out[c[2]][c[1]] # ENull
       /\ \A c \in old : out[c[2]][c[1]] = p_grid.grid[c[2]][c[1]]
       /\ \A c \in new :
            /\ ~out[c[2]][c[1]].bomb
            /\ out[c[2]][c[1]].value \in 1..ETYPES
            /\ out[c[2]][c[1]].id \notin P_ids(p_grid.grid)
            /\ \A d \in new \ {c} : out[d[2]][d[1]].id # out[c[2]][c[1]].id
       /\ p_out.spawnIds = { out[c[2]][c[1]].id : c \in new }

\* a board with tiles and at least two holes was refilled
C28_Witness ==
  /\ p_fn = "fillEmpties"
  /\ Cardinality(p_out.spawnIds) >= 2
  /\ Cardinality(P_ids(p_grid.grid)) >= 2
  /\ p_out.grid # p_grid.grid

\* C30 (edgeflow): shuffleGrid permutes only the (value, bomb) pairs: the
\* result has the same occupied cells, the same tile id at every cell and
\* the same multiset of (value, bomb) pairs as the input, whatever is drawn.
C30_ShufflePermutesKindsOnly ==
  p_fn = "shuffleGrid" =>
    /\ \A c \in ECells :
         /\ p_out[c[2]][c[1]] = ENull <=> p_grid.grid[c[2]][c[1]] = ENull
         /\ p_out[c[2]][c[1]] # ENull => p_out[c[2]][c[1]].id = p_grid.grid[c[2]][c[1]].id
    /\ \A v \in 1..(ETYPES + 1) : \A b \in BOOLEAN :
         Cardinality(P_pairCells(p_out, v, b)) = Cardinality(P_pairCells(p_grid.grid, v, b))
    /\ \A c \in ECells :
         p_out[c[2]][c[1]] # ENull =>
           /\ p_out[c[2]][c[1]].value \in 1..(ETYPES + 1)
           /\ p_out[c[2]][c[1]].bomb \in BOOLEAN

\* a shuffle has moved the bomb pair to another tile
C30_Witness ==
  /\ p_fn = "shuffleGrid"
  /\ p_out # p_grid.grid
  /\ \E c \in ECells :
       /\ p_grid.grid[c[2]][c[1]] # ENull
       /\ p_grid.grid[c[2]][c[1]].bomb
       /\ ~p_out[c[2]][c[1]].bomb
  /\ Cardinality(P_ids(p_grid.grid)) >= 3

(***************************************************************************)
(* Available moves (edgeflow)                                              *)
(***************************************************************************)
\* C31 (edgeflow): hasAvailableMoves(grid) is true exactly when the board holds
\* a bomb or some cell whose groupAt result has MIN_GROUP members or more; the
\* seen-set never hides an eligible group.
C31_MovesIffBombOrGroup ==
  p_fn = "hasAvailableMoves" =>
    /\ p_out <=>
         \E c \in ECells :
           /\ p_grid[c[2]][c[1]] # ENull
           /\ \/ p_grid[c[2]][c[1]].bomb
              \/ Len(E_groupAt(p_grid, c[1], c[2])) >= E_MIN_GROUP
    /\ p_out <=> E_playable(p_grid)

\* the scan skipped a cell marked by a group too small and found an eligible
\* group of the same kind later on a board without a bomb
C31_Witness ==
  /\ p_fn = "hasAvailableMoves"
  /\ p_out
  /\ \A c \in ECells : p_grid[c[2]][c[1]] # ENull => ~p_grid[c[2]][c[1]].bomb
  /\ p_grid[0][0] # ENull
  /\ Cardinality(E_component(p_grid, <<0, 0>>)) = 2
  /\ \E c \in ECells :
       /\ p_grid[c[2]][c[1]] # ENull
       /\ p_grid[c[2]][c[1]].value = p_grid[0][0].value
       /\ Cardinality(E_component(p_grid, c)) >= E_MIN_GROUP

(***************************************************************************)
(* The starting board (edgeflow)                                           *)
(***************************************************************************)
\* the cells of the board in a same-kind component of MIN_GROUP cells or more
P_playableCells(grid) ==
  { c \in ECells : /\ grid[c[2]][c[1]] # ENull
                   /\ ~grid[c[2]][c[1]].bomb
                   /\ Cardinality(E_component(grid, c)) >= E_MIN_GROUP }

\* C32 (edgeflow): the board initState makes through ensurePlayableArea is
\* fully occupied and has no bomb; it has an available move with at least
\* START_PLAYABLE_CELLS cells in groups of MIN_GROUP or more, or the shuffle
\* budget of the loop was used up; no run makes more than 3 * maxShuffles
\* shuffles.
C32_StartBoardPlayableOrBudgetSpent ==
  p_fn = "ensurePlayableArea" =>
    /\ p_out # {}
    /\ \A r \in p_out :
         /\ \A c \in ECells : r.grid[c[2]][c[1]] # ENull /\ ~r.grid[c[2]][c[1]].bomb
         /\ \/ /\ E_playable(r.grid)
               /\ Cardinality(P_playableCells(r.grid)) >= E_START_PLAYABLE_CELLS
            \/ r.exhausted
         /\ r.exhausted => r.calls >= p_grid.maxShuffles
         /\ r.calls <= 3 * p_grid.maxShuffles

\* from one seed, a run that found a board with enough playable cells by
\* shuffling and a run that used up the budget and returned a board short of
\* them
C32_Witness ==
  /\ p_fn = "ensurePlayableArea"
  /\ p_grid.maxShuffles > 0
  /\ \E r \in p_out :
       /\ ~r.exhausted /\ r.calls > 0
       /\ Cardinality(P_playableCells(r.grid)) >= E_START_PLAYABLE_CELLS
  /\ \E r \in p_out :
       /\ r.exhausted
       /\ Cardinality(P_playableCells(r.grid)) < E_START_PLAYABLE_CELLS

(***************************************************************************)
(* Bombs and the level (fragments)                                         *)
(***************************************************************************)
\* C33 (fragments): while the level is 1 (fewer than LEVEL_BASE tiles removed
\* since the last reset) no tile of the board and no tile of the pending next
\* line is a bomb.
C33_NoBombAtLevelOne ==
  f_removed < FLEVEL_BASE =>
    /\ \A c \in FCells : f_grid[c[2]][c[1]] # Null => ~f_grid[c[2]][c[1]].bomb
    /\ \A i \in 1..Len(f_nextLine) : ~f_nextLine[i].bomb

(***************************************************************************)
(* The gravity direction (edgeflow)                                        *)
(***************************************************************************)
\* the direction changes at the start of a resolution, to the vote of the
\* post-removal board against the current direction
P_voteStep ==
  /\ e_ev'.op = "holes"
  /\ e_gravity' = E_computeGravity(e_grid', e_gravity)

\* C34 as stated (edgeflow): the gravity direction changes only at the start
\* of a resolution, to computeGravity(post-removal board, current direction);
\* every other event leaves it unchanged.
C34_GravityChangesOnlyByVote ==
  [][ e_gravity' # e_gravity => P_voteStep ]_vars

\* C34 amended (edgeflow): the gravity direction changes only at the start of
\* a resolution, to computeGravity(post-removal board, current direction), or
\* at RESET, which sets it to DOWN; at the start of a resolution it always
\* becomes that vote, and every other event leaves it unchanged.
C34_GravityChangesByVoteOrReset ==
  [][ /\ e_gravity' # e_gravity =>
           \/ P_voteStep
           \/ e_ev'.op = "reset" /\ e_gravity' = "DOWN"
      /\ e_ev'.op = "holes" => e_gravity' = E_computeGravity(e_grid', e_gravity) ]_vars

\* a direction other than DOWN, voted in an earlier turn, is still in force
\* when the next click is accepted
C34_Witness ==
  /\ e_ev.op \in {"hit", "bomb"}
  /\ e_removal # << >>
  /\ e_gravity # "DOWN"

(***************************************************************************)
(* Holes and the input lock (edgeflow)                                     *)
(***************************************************************************)
P_hasHole(grid) == \E c \in ECells : grid[c[2]][c[1]] = ENull

\* C35 (edgeflow): whenever input is accepted (gameStarted, not locked, not
\* gameOver) the committed board has no empty cell; a committed board with a
\* hole is seen only while the board is locked.
C35_NoHoleWhileInputOpen ==
  /\ (e_gameStarted /\ ~e_locked /\ ~e_gameOver) => ~P_hasHole(e_grid)
  /\ P_hasHole(e_grid) => e_locked

\* a resolution has committed a board with holes, under the lock
C35_Witness ==
  /\ e_ev.op \in {"holes", "shift"}
  /\ P_hasHole(e_grid)
  /\ e_locked
  /\ ~e_gameOver

(***************************************************************************)
(* Values and bomb flags (edgeflow)                                        *)
(***************************************************************************)
\* every tile of the board is a bomb with value TYPES + 1 or an ordinary tile
\* with a value in 1..TYPES
P_wellKinded(grid) ==
  \A c \in ECells :
    grid[c[2]][c[1]] # ENull =>
      IF grid[c[2]][c[1]].bomb THEN grid[c[2]][c[1]].value = ETYPES + 1
      ELSE grid[c[2]][c[1]].value \in 1..ETYPES

\* C36 (edgeflow): on every reachable board, committed or in the hands of a
\* resolution, a tile is a bomb if and only if its value is TYPES + 1, and
\* every other tile has a value in 1..TYPES.
C36_BombIffValueAboveTypes ==
  /\ P_wellKinded(e_grid)
  /\ \A i \in 1..Len(e_removal) : P_wellKinded(e_removal[i].next)
  /\ \A t \in e_tasks : P_wellKinded(t.nextGrid) /\ P_wellKinded(t.shifted)

\* a refill has been committed on a board that holds a bomb
C36_Witness ==
  /\ e_ev.op = "final"
  /\ \E c \in ECells : e_grid[c[2]][c[1]] # ENull /\ e_grid[c[2]][c[1]].bomb
  /\ \E c \in ECells : e_grid[c[2]][c[1]] # ENull /\ e_grid[c[2]][c[1]].id > ECOLS * EROWS

(***************************************************************************)
(* Committed boards are settled (fragments)                                *)
(***************************************************************************)
P_colHasTile(grid, x) == \E y \in FYs : grid[y][x] # Null

\* C37 (fragments): every committed board is settled under Policy A: no
\* occupied cell has an empty cell below it in its column, and no empty column
\* lies between two non-empty columns.
C37_CommittedBoardSettled ==
  /\ \A x \in FXs : \A y \in FYs :
       (f_grid[y][x] # Null /\ y + 1 \in FYs) => f_grid[y + 1][x] # Null
  /\ \A a \in FXs : \A b \in FXs : \A z \in FXs :
       (a < z /\ z < b /\ P_colHasTile(f_grid, a) /\ P_colHasTile(f_grid, b))
         => P_colHasTile(f_grid, z)

\* a click's board was committed after a whole column was cleared: the columns
\* left stand together, two tiles high or more
C37_Witness ==
  /\ f_ev.op = "pop"
  /\ \E x \in FXs : ~P_colHasTile(f_grid, x)
  /\ Cardinality({ x \in FXs : P_colHasTile(f_grid, x) }) >= 2
  /\ \E x \in FXs : f_grid[FROWS - 2][x] # Null

(***************************************************************************)
(* Bomb clicks (fragments)                                                 *)
(***************************************************************************)
\* the cells of the committed board that hold a tile of the kind of cell c
P_kindCells(c) ==
  { d \in FCells : f_grid[d[2]][d[1]] # Null /\ f_grid[d[2]][d[1]].t = f_grid[c[2]][c[1]].t }

\* the committed board without the tiles of the cells K
P_swept(K) == [y \in FYs |-> [x \in FXs |-> IF <<x, y>> \in K THEN Null ELSE f_grid[y][x]]]

\* C38 (fragments): an accepted click on a bomb removes exactly the tiles of
\* the bomb's kind on the whole board (the bomb and other bombs of the kind
\* included, adjacent or not), adds removedCount squared to the score and
\* removedCount to the removed total, and the settled board is committed by
\* the POP timeout.
C38_BombSweepsItsKind ==
  [][ /\ f_ev'.op = "bomb" =>
           \E c \in FCells :
             /\ f_grid[c[2]][c[1]] # Null
             /\ f_grid[c[2]][c[1]].bomb
             /\ f_ev'.a = Cardinality(P_kindCells(c))
             /\ f_score' = f_score + (f_ev'.a * f_ev'.a)
             /\ f_removed' = f_removed + f_ev'.a
             /\ f_grid' = f_grid
             /\ f_locked'
             /\ Len(f_popQ') = Len(f_popQ) + 1
             /\ f_popQ'[Len(f_popQ')].after = F_settle(P_swept(P_kindCells(c)))
             /\ f_popQ'[Len(f_popQ')].removing =
                  { f_grid[d[2]][d[1]].id : d \in P_kindCells(c) }
      /\ f_ev'.op = "pop" => (f_popQ # << >> /\ f_grid' = f_popQ[1].after) ]_vars

\* a bomb click is waiting for its POP timeout: it swept three tiles or more,
\* not all of them joined to the bomb
C38_Witness ==
  /\ f_ev.op = "bomb"
  /\ f_popQ # << >>
  /\ f_ev.a >= 3
  /\ \E c \in FCells :
       /\ f_grid[c[2]][c[1]] # Null
       /\ f_grid[c[2]][c[1]].bomb
       /\ Cardinality(P_kindCells(c)) = f_ev.a
       /\ Reach({c}, P_kindCells(c)) # P_kindCells(c)
       /\ \A d \in P_kindCells(c) : f_popQ[Len(f_popQ)].after[d[2]][d[1]] # f_grid[d[2]][d[1]]

(***************************************************************************)
(* Line pushes (fragments)                                                 *)
(***************************************************************************)
\* the ids of the tiles of a fragments board
P_idsF(grid) == { grid[c[2]][c[1]].id : c \in { d \in FCells : grid[d[2]][d[1]] # Null } }

\* a push lifts every tile by one row and lays the previewed row under them
P_pushShape ==
  /\ \A x \in FXs : \A y \in FYs :
       y < FROWS - 1 => f_grid'[y][x] = f_grid[y + 1][x]
  /\ \A x \in FXs :
       /\ f_grid'[FROWS - 1][x] # Null
       /\ f_grid'[FROWS - 1][x].t = f_nextLine[x + 1].t
       /\ f_grid'[FROWS - 1][x].bomb = f_nextLine[x + 1].bomb
  /\ f_nextLine' \in F_NextLines(F_allowBombs(f_removed))

\* the ids of the new bottom row differ from each other
P_pushIdsDistinct ==
  \A x \in FXs : \A z \in FXs :
    x # z => f_grid'[FROWS - 1][x].id # f_grid'[FROWS - 1][z].id

\* C39 (fragments): a line push that does not end the game moves every tile up
\* by one row in its column, unchanged, fills the bottom row with COLS new
\* tiles whose kind and bomb flag are those of the previewed nextLine, column
\* by column, and whose ids are fresh, and replaces nextLine by a new row.
C39_PushLiftsBoardAndLaysFreshRow ==
  [][ f_ev'.op = "push" =>
        /\ P_pushShape
        /\ P_pushIdsDistinct
        /\ \A x \in FXs : f_grid'[FROWS - 1][x].id \notin P_idsF(f_grid) ]_vars

\* the part of C39 that does not speak of the freshness of the ids
P_pushKeepsShape == [][f_ev'.op = "push" => P_pushShape /\ P_pushIdsDistinct]_vars

\* a push onto a board that holds a tile, with a bomb in the previewed row
P_pushSeen ==
  /\ f_ev.op = "push"
  /\ \E x \in FXs : f_grid[FROWS - 2][x] # Null
  /\ \E x \in FXs : f_grid[FROWS - 1][x].bomb

\* the NumSprint page
NextN ==
  \/ NReset /\ NAlone
  \/ NTick /\ NAlone
  \/ NRequestReroll /\ NAlone
  \/ NRerollTimeout /\ NAlone
  \/ NLevelUpTimeout /\ NAlone
  \/ (\E k \in 1..NCOUNT : NHandleHit(k)) /\ NAlone
  \/ NMarkTimeout /\ NAlone
  \/ NDrift /\ NAlone

InitN == NInit /\ FIdle /\ EIdle /\ PIdle

SpecN == InitN /\ [][NextN]_vars

(***************************************************************************)
(* NumSprint: the next number                                              *)
(***************************************************************************)
\* the positions of the cells that show the target
P_targetCells == { k \in 1..Len(n_cells) : n_cells[k].value = n_target }

\* C40 (NumSprint v2): whenever the game is neither locked nor over, exactly
\* one cell shows the target and that cell is not hit, whatever the order of
\* hits, reroll requests, timeouts and resets.
C40_TargetOnOneOpenCell ==
  (~n_locked /\ ~n_gameOver) =>
    /\ Cardinality(P_targetCells) = 1
    /\ \A k \in P_targetCells : ~n_cells[k].hit

====
